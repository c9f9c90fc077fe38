----------------------------- MODULE HsmContract -----------------------------
(***************************************************************************)
(* What IHsmApi promises its callers: while it is ready, sessions with       *)
(* handles that are never reused, a map from slots to keys with permissions, *)
(* and cryptography for open sessions under the permissions of the slot's     *)
(* key.  A call takes effect, or is refused for a reason and has none.  The   *)
(* documentation knows two more refusals, which the code does not have: Stop  *)
(* while sessions are open, and Import of a size the algorithm does not have.   *)
(***************************************************************************)
EXTENDS FiniteSets, Integers

CONSTANTS
    Handle, HandleArg,      \* session handles, and the values callers pass
    MaxOpen,                \* sessions open at once
    KeySlot, SlotArg,       \* the slots, and the slot arguments callers pass
    KeySize, SizeArg,       \* acceptable key sizes, and those callers pass
    Algorithm, Permissions,
    BufferSize

VARIABLES ready, issued, open, store, call

contractVars == <<ready, issued, open, store, call>>

Key == [size : KeySize, algorithm : Algorithm, permissions : Permissions]
Empty == [s \in KeySlot |-> {}]
Flag == {"ENCRYPT", "DECRYPT"}

\* args is the tuple of arguments that decide whether a call is accepted.
Accepted(op, args, out) ==
    call' = [op |-> op, args |-> args, ok |-> TRUE, out |-> out]
Refused(op, args) ==
    call' = [op |-> op, args |-> args, ok |-> FALSE, out |-> {}]

Init == /\ ready = FALSE /\ issued = {} /\ open = {} /\ store = Empty
        /\ call = [op |-> "none", args |-> <<>>, ok |-> TRUE, out |-> {}]

Start == /\ ready' = TRUE
         /\ issued' = IF ready THEN issued ELSE {}
         /\ UNCHANGED <<open, store>>
         /\ Accepted("init", <<>>, {})

Stop == /\ ready /\ ready' = FALSE
        /\ open' = {} /\ store' = Empty /\ UNCHANGED issued
        /\ Accepted("deinit", <<>>, {})

Open(h) == /\ ready /\ h \notin issued /\ Cardinality(open) < MaxOpen
           /\ issued' = issued \cup {h} /\ open' = open \cup {h}
           /\ UNCHANGED <<ready, store>>
           /\ Accepted("createSession", <<>>, {h})

Close(h) == /\ ready /\ h \in open
            /\ open' = open \ {h} /\ UNCHANGED <<ready, issued, store>>
            /\ Accepted("closeSession", <<h>>, {})

Import(s, k) == /\ ready /\ store[s] = {}
                /\ store' = [store EXCEPT ![s] = {k}]
                /\ UNCHANGED <<ready, issued, open>>
                /\ Accepted("importKey", <<s, k.size>>, {})

Delete(s) == /\ ready /\ store[s] # {}
             /\ store' = [store EXCEPT ![s] = {}]
             /\ UNCHANGED <<ready, issued, open>>
             /\ Accepted("deleteKey", <<s>>, {})

Wipe == /\ ready /\ store' = Empty
        /\ UNCHANGED <<ready, issued, open>>
        /\ Accepted("clearAllKeys", <<>>, {})

Describe(s) == /\ ready
               /\ UNCHANGED <<ready, issued, open, store>>
               /\ Accepted("getKeySlotInfo", <<s>>, store[s])

Usable(in, out) == in > 0 /\ out >= in
May(flag, s) == s \in KeySlot /\ \E k \in store[s] : flag \in k.permissions

Crypt(flag, h, s, in, out) ==
    /\ ready /\ h \in open /\ Usable(in, out) /\ May(flag, s)
    /\ UNCHANGED <<ready, issued, open, store>>
    /\ Accepted(flag, <<h, s, in, out>>, {})

\* The reasons for which a call may be refused.
Refuse ==
    /\ UNCHANGED <<ready, issued, open, store>>
    /\ \/ ~ready /\ \E op \in {"deinit", "clearAllKeys"} : Refused(op, <<>>)
       \/ /\ ~ready \/ Cardinality(open) = MaxOpen
          /\ Refused("createSession", <<>>)
       \/ \E h \in HandleArg :
            /\ ~ready \/ h \notin open
            /\ Refused("closeSession", <<h>>)
       \/ \E s \in SlotArg, n \in SizeArg :
            /\ \/ ~ready \/ s \notin KeySlot \/ n \notin KeySize
               \/ store[s] # {}
            /\ Refused("importKey", <<s, n>>)
       \/ \E s \in SlotArg :
            \/ /\ ~ready \/ s \notin KeySlot \/ store[s] = {}
               /\ Refused("deleteKey", <<s>>)
            \/ /\ ~ready \/ s \notin KeySlot
               /\ Refused("getKeySlotInfo", <<s>>)
       \/ \E flag \in Flag, h \in HandleArg, s \in SlotArg,
             in, out \in BufferSize :
            /\ \/ ~ready \/ h \notin open
               \/ ~Usable(in, out) \/ ~May(flag, s)
            /\ Refused(flag, <<h, s, in, out>>)

Next ==
    \/ Start \/ Stop \/ Wipe \/ Refuse
    \/ \E h \in Handle : Open(h) \/ Close(h)
    \/ \E s \in KeySlot :
        \/ Delete(s) \/ Describe(s)
        \/ \E k \in Key : Import(s, k)
        \/ \E flag \in Flag, h \in Handle, in, out \in BufferSize :
              Crypt(flag, h, s, in, out)

Spec == Init /\ [][Next]_contractVars
=============================================================================
