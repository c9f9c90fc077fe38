-------------------------- MODULE KeystoreContract --------------------------
(***************************************************************************)
(* What IKeystoreService promises: a map from slots to at most one key each. *)
(* A call either takes effect or is refused without one, and call records    *)
(* what its caller saw.  store[s] is {} or {k}, and so is the key or the     *)
(* description that a call returned.  That the size has to suit the algorithm, *)
(* as the documentation says, is not part of it: the code does not ask.         *)
(***************************************************************************)
CONSTANTS
    KeySlot, SlotArg,       \* the slots, and the slot arguments callers pass
    KeySize, SizeArg,       \* acceptable key sizes, and those callers pass
    KeyMaterial, Algorithm, Permissions

VARIABLES ready, store, call

contractVars == <<ready, store, call>>

Key == [material : KeyMaterial, size : KeySize, algorithm : Algorithm,
        permissions : Permissions]

\* What a fetched key and a slot's description reveal of a stored key.
Secret(k) == [material |-> k.material, size |-> k.size, algorithm |-> k.algorithm]
Description(s, k) == [id |-> s, size |-> k.size, algorithm |-> k.algorithm,
                      permissions |-> k.permissions]

Empty == [s \in KeySlot |-> {}]

\* args is the tuple of arguments that decide whether a call is accepted.
Accepted(op, args, out) == call' = [op |-> op, args |-> args, ok |-> TRUE, out |-> out]
Refused(op, args) == call' = [op |-> op, args |-> args, ok |-> FALSE, out |-> {}]

Init == /\ ready = FALSE /\ store = Empty
        /\ call = [op |-> "none", args |-> <<>>, ok |-> TRUE, out |-> {}]

Start == /\ ready' = TRUE /\ UNCHANGED store
         /\ Accepted("init", <<>>, {})

Stop == /\ ready /\ ready' = FALSE /\ store' = Empty
        /\ Accepted("deinit", <<>>, {})

Wipe == /\ ready /\ store' = Empty /\ UNCHANGED ready
        /\ Accepted("clearAll", <<>>, {})

Import(s, k) == /\ ready /\ store[s] = {}
                /\ store' = [store EXCEPT ![s] = {k}] /\ UNCHANGED ready
                /\ Accepted("importKey", <<s, k.size>>, {})

Delete(s) == /\ ready /\ store[s] # {}
             /\ store' = [store EXCEPT ![s] = {}] /\ UNCHANGED ready
             /\ Accepted("deleteKey", <<s>>, {})

Fetch(s) == /\ ready /\ store[s] # {}
            /\ UNCHANGED <<ready, store>>
            /\ Accepted("getKey", <<s>>, {Secret(k) : k \in store[s]})

Describe(s) == /\ ready
               /\ UNCHANGED <<ready, store>>
               /\ Accepted("getSlotInfo", <<s>>, {Description(s, k) : k \in store[s]})

\* A refusal changes nothing, returns nothing and has a reason.
Holds(s) == s \in KeySlot /\ store[s] # {}

Refuse(s, size) ==
    /\ UNCHANGED <<ready, store>>
    /\ \/ ~ready /\ \E op \in {"deinit", "clearAll"} : Refused(op, <<>>)
       \/ /\ ~ready \/ s \notin KeySlot \/ size \notin KeySize \/ Holds(s)
          /\ Refused("importKey", <<s, size>>)
       \/ /\ ~ready \/ ~Holds(s)
          /\ \E op \in {"deleteKey", "getKey"} : Refused(op, <<s>>)
       \/ /\ ~ready \/ s \notin KeySlot
          /\ Refused("getSlotInfo", <<s>>)

Next ==
    \/ Start \/ Stop \/ Wipe
    \/ \E s \in SlotArg, size \in SizeArg : Refuse(s, size)
    \/ \E s \in KeySlot :
        \/ Delete(s) \/ Fetch(s) \/ Describe(s)
        \/ \E k \in Key : Import(s, k)

Spec == Init /\ [][Next]_contractVars
=============================================================================
