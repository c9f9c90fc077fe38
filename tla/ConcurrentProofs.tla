-------------------------- MODULE ConcurrentProofs --------------------------
(***************************************************************************)
(* Proofs about threads that share one facade, for any number of threads, any  *)
(* sizes of the tables and any set of methods called.                        *)
(*                                                                          *)
(* Hypothesis: every method that writes, and encrypt() and decrypt(), is       *)
(* called with the mutex held; isSessionValid() and getKeySlotInfo() need not  *)
(* be.                                                                      *)
(*                                                                          *)
(* The argument: only the holder of the mutex writes, so what has been done    *)
(* since the mutex was taken is the holder's progress through its own call.    *)
(* Progress says for each step how the shared state differs from the state     *)
(* that was there when the holder entered.  A reader without the mutex knows   *)
(* only what has been true at some moment while it ran (Tracked).             *)
(***************************************************************************)
EXTENDS HsmConcurrent, HsmApiProofs

WritersLocked == Operations \ Locked \subseteq {"isSessionValid", "getKeySlotInfo"}

-----------------------------------------------------------------------------
(* The invariant.                                                           *)

SharedTypes ==
    /\ sessions_ \in [Sessions!Slot -> SessionRecord]
    /\ nextSessionId_ \in Sessions!SessionId
    /\ keySlots_ \in [Keystore!KeySlot -> SlotRecord]
    /\ smInitialized_ = TRUE /\ ksInitialized_ = TRUE /\ isInitialized_ = TRUE
    /\ wiring = FullyWired
    /\ uses \in [Keystore!KeySlot -> 0 .. CountRange - 1]
    /\ committed \in [sessions : [Sessions!Slot -> SessionRecord],
                      nextId : Sessions!IssuedId,
                      slots : [Keystore!KeySlot -> SlotRecord]]

\* Where a thread can be, and where it can be after it has started.
Stage == {"activate", "restartIds", "forgetId", "readId", "readActive",
          "writeKey", "occupy", "describe", "resetCount", "clearKey", "clearInfo",
          "permissions", "fetch", "readCount", "writeCount", "apply", "return"}

LocalTypes ==
    /\ lock \in Thread \cup {NoThread}
    /\ pc \in [Thread -> Stage \cup {"idle", "start"}]
    /\ request \in [Thread -> Request \cup {Idle}]
    /\ result \in [Thread -> StatusCode]
    /\ info \in [Thread -> Keystore!InfoType] /\ key \in [Thread -> Keystore!KeyType]
    /\ count \in [Thread -> 0 .. CountRange - 1]
    /\ cursor \in [Thread -> Sessions!Slot]

\* The operations that a thread at a step may be executing.
Doing(step) ==
    CASE step \in {"activate", "restartIds"} -> {"createSession"}
      [] step = "forgetId" -> {"closeSession"}
      [] step \in {"readId", "readActive"} -> {"isSessionValid"}
      [] step \in {"writeKey", "occupy", "describe"} -> {"importKey"}
      [] step \in {"clearKey", "clearInfo"} -> {"deleteKey"}
      [] step = "resetCount" -> {"importKey", "deleteKey"}
      [] step \in {"permissions", "fetch", "readCount", "writeCount", "apply"} -> Flags
      [] OTHER -> Operations

\* A thread between calls has no request, one in a call is where it can be.
InCall(t) ==
    IF At(t, "idle") THEN request[t] = Idle
    ELSE request[t] \in Request /\ request[t].op \in Doing(pc[t])

\* The mutex is held by the thread that is in a locked method: there is at
\* most one.
Exclusive == \A t \in Thread :
    lock = t <=> (~At(t, "idle") /\ request[t].op \in Locked)

-----------------------------------------------------------------------------
(* The progress of the holder.                                              *)

Free(sessions) == {i \in Sessions!Slot : ~sessions[i].isActive}
Holders(sessions, id) ==
    {i \in Sessions!Slot : sessions[i].id = id /\ sessions[i].isActive}
Tidy(sessions) ==
    \A i \in Sessions!Slot : sessions[i].isActive <=> sessions[i].id # kInvalidSessionId

CountRight(s) ==
    keySlots_[s].info.isOccupied => keySlots_[s].accessCount = uses[s]
AllCounted == \A s \in Keystore!KeySlot : CountRight(s)

\* The shared state is the committed one but for the sessions, or for a slot.
SessionsAre(sessions, id) ==
    /\ sessions_ = sessions /\ nextSessionId_ = id
    /\ keySlots_ = committed.slots /\ AllCounted
SlotIs(s, slot) ==
    /\ sessions_ = committed.sessions /\ nextSessionId_ = committed.nextId
    /\ keySlots_ = [committed.slots EXCEPT ![s] = slot]
    /\ \A u \in Keystore!KeySlot \ {s} : CountRight(u)
Clean == SessionsAre(committed.sessions, committed.nextId)

Old(t) == committed.slots[request[t].slot]
New(t) == LET r == request[t]
          IN  Keystore!Filled(Old(t), r.slot, r.algorithm, r.data, r.permissions)
Increased(slot) == [slot EXCEPT !.accessCount = Keystore!NextCount(@)]

\* A slot that is being filled, and one that is being cleared.
Keyed(t) == [Old(t) EXCEPT !.key = New(t).key]
Flagged(t) == [Keyed(t) EXCEPT !.info.id = New(t).info.id, !.info.isOccupied = TRUE]
Described(t) == [New(t) EXCEPT !.accessCount = Old(t).accessCount]
Unkeyed(t) == [Old(t) EXCEPT !.key = Keystore!BlankKey]
Emptied(t) == [Keystore!BlankSlot EXCEPT !.accessCount = Old(t).accessCount]

With(i, session) == [committed.sessions EXCEPT ![i] = session]
Creating(i, active) ==
    /\ Sessions!First(i, Free(committed.sessions))
    /\ SessionsAre(With(i, [id |-> committed.nextId, isActive |-> active]),
                   committed.nextId + 1)
Closing(t, i, session) ==
    /\ Sessions!First(i, Holders(committed.sessions, request[t].session))
    /\ SessionsAre(With(i, session), committed.nextId)
Importing(t, slot) ==
    /\ Keystore!AcceptableSize(request[t].data) /\ ~Old(t).info.isOccupied
    /\ SlotIs(request[t].slot, slot)
Deleting(t, slot) == Old(t).info.isOccupied /\ SlotIs(request[t].slot, slot)
Admitted(t) == IsLive(request[t].session, committed.sessions)
Permitted(t) == Admitted(t) /\ request[t].op \in Old(t).info.permissions
Using(t, slot) ==
    Permitted(t) /\ Old(t).info.isOccupied /\ SlotIs(request[t].slot, slot)

\* The loop of isSessionValid() has not found the session.
NotBefore(t) == \A i \in Sessions!Slot :
    i < cursor[t] => i \notin Holders(sessions_, request[t].session)

\* Why a call was refused, and what one that was not has done.
Reason(t, op, status) ==
    \/ /\ op = "createSession"
       /\ \/ status = "ERR_SESSION_INVALID" /\ Free(committed.sessions) = {}
          \/ Fails("sessions", status)
    \/ /\ op = "closeSession"
       /\ \/ status = "ERR_SESSION_INVALID" /\ ~Admitted(t)
          \/ Fails("sessions", status)
    \/ /\ op = "importKey"
       /\ \/ ~Keystore!AcceptableSize(request[t].data) /\ status = "ERR_INVALID_PARAM"
          \/ /\ Keystore!AcceptableSize(request[t].data)
             /\ Old(t).info.isOccupied /\ status = "ERR_KEY_SLOT_FULL"
          \/ Fails("keystore", status)
    \/ /\ op = "deleteKey"
       /\ \/ ~Old(t).info.isOccupied /\ status = "ERR_INVALID_PARAM"
          \/ Fails("keystore", status)
    \/ /\ op \in Flags
       /\ \/ ~Admitted(t) /\ status = "ERR_SESSION_INVALID"
          \/ Admitted(t) /\ ~Permitted(t) /\ status = "ERR_AUTH_FAILED"
          \/ Permitted(t) /\ ~Old(t).info.isOccupied /\ status = "ERR_INVALID_KEY_ID"

Done(t, op) ==
    \/ /\ op = "createSession" /\ \E i \in Sessions!Slot :
            /\ Sessions!First(i, Free(committed.sessions))
            /\ SessionsAre(With(i, [id |-> committed.nextId, isActive |-> TRUE]),
                           Sessions!Successor(committed.nextId))
    \/ /\ op = "closeSession"
       /\ \E i \in Sessions!Slot : Closing(t, i, Sessions!NoSession)
    \/ op = "importKey" /\ Importing(t, New(t))
    \/ op = "deleteKey" /\ Deleting(t, Keystore!BlankSlot)
    \/ op \in Flags /\ Using(t, Increased(Old(t)))

Finished(t) ==
    \/ result[t] # "OK" /\ Clean /\ Reason(t, request[t].op, result[t])
    \/ result[t] = "OK" /\ Done(t, request[t].op)
    \/ /\ request[t].op = "getKeySlotInfo" /\ Clean /\ info[t] = Old(t).info
       /\ result[t] = "OK" \/ Fails("keystore", result[t])
    \/ /\ request[t].op = "isSessionValid" /\ Clean
       /\ result[t] = "OK" <=> Admitted(t)

Progress(t) ==
    /\ At(t, "start") => Clean
    /\ At(t, "readId") => Clean /\ NotBefore(t)
    /\ At(t, "readActive") => /\ Clean /\ NotBefore(t)
                              /\ sessions_[cursor[t]].id = request[t].session
    /\ At(t, "activate") => Creating(cursor[t], FALSE)
    /\ At(t, "restartIds") => Creating(cursor[t], TRUE)
    /\ At(t, "forgetId") => Closing(t, cursor[t],
                              [id |-> request[t].session, isActive |-> FALSE])
    /\ At(t, "writeKey") => Importing(t, Old(t))
    /\ At(t, "occupy") => Importing(t, Keyed(t))
    /\ At(t, "describe") => Importing(t, Flagged(t))
    /\ At(t, "clearKey") => Deleting(t, Old(t))
    /\ At(t, "clearInfo") => Deleting(t, Unkeyed(t))
    /\ At(t, "resetCount") =>
         IF request[t].op = "importKey"
           THEN Importing(t, Described(t)) ELSE Deleting(t, Emptied(t))
    /\ At(t, "permissions") => Clean /\ Admitted(t)
    /\ At(t, "fetch") => Clean /\ Permitted(t)
    /\ pc[t] \in {"readCount", "writeCount"} =>
         /\ Using(t, Old(t)) /\ key[t] = Old(t).key
         /\ Keystore!NextCount(Old(t).accessCount) = uses[request[t].slot]
    /\ At(t, "writeCount") => count[t] = Old(t).accessCount
    /\ At(t, "apply") => /\ Using(t, Increased(Old(t))) /\ key[t] = Old(t).key
                         /\ AllCounted
    /\ At(t, "return") => Finished(t) /\ AllCounted /\ Tidy(sessions_)

HolderInv ==
    /\ lock = NoThread => Clean
    /\ \A t \in Thread : lock = t => Progress(t)

-----------------------------------------------------------------------------
(* What a thread in isSessionValid() has seen.                              *)

Tracked(t) == LET id == request[t].session
                  c  == cursor[t]
  IN  /\ IsLive(id, sessions_) \in answers[t]
      /\ IsLive(id, committed.sessions) \in answers[t]
      /\ pc[t] \in {"start", "readId", "readActive"} =>
           \/ FALSE \in answers[t]
           \/ \E i \in Holders(sessions_, id) : i >= c
      /\ At(t, "readActive") /\ id # kInvalidSessionId =>
           \/ TRUE \in answers[t]
           \/ \E u \in Thread : lock = u /\ At(u, "activate") /\ cursor[u] = c
                                /\ sessions_[c].id = id
      /\ At(t, "return") /\ id # kInvalidSessionId =>
           (result[t] = "OK") \in answers[t]

ReaderInv == \A t \in Thread : request[t].op = "isSessionValid" => Tracked(t)

CInv ==
    /\ SharedTypes /\ LocalTypes
    /\ \A t \in Thread : /\ InCall(t)
                         /\ pc[t] \in {"idle", "start"} => cursor[t] = 0
    /\ Exclusive /\ Tidy(committed.sessions)
    /\ HolderInv /\ ReaderInv
-----------------------------------------------------------------------------
(* Threads in their calls.                                                  *)

Here(t) == InCall(t) /\ (pc[t] \in {"idle", "start"} => cursor[t] = 0)

LEMMA RequestFields ==
    \A r \in Request :
      /\ r.op \in Operations
      /\ r.op \in {"closeSession", "isSessionValid"} \cup Flags
           => r.session \in Sessions!SessionId
      /\ r.op \in {"importKey", "deleteKey", "getKeySlotInfo"} \cup Flags
           => r.slot \in Keystore!KeySlot
      /\ r.op = "importKey" => /\ r.algorithm \in Algorithm
                               /\ r.data \in Keystore!KeyData
                               /\ r.permissions \in Permissions
BY DEF Request, Requests, Flags

\* A thread in a method that writes holds the mutex.
LEMMA WriterHolds ==
    ASSUME CInv, WritersLocked, NEW t \in Thread, ~At(t, "idle"),
           request[t].op \notin {"isSessionValid", "getKeySlotInfo"}
    PROVE  lock = t /\ Progress(t)
<1>1. request[t] \in Request
  BY DEF CInv, InCall
<1>2. request[t].op \in Locked
  BY <1>1, RequestFields DEF WritersLocked
<1>3. QED
  BY <1>2 DEF CInv, Exclusive, HolderInv

\* Within a call, a step takes one thread to its next step.
Moves(t, step) ==
    /\ pc' = [pc EXCEPT ![t] = step] /\ UNCHANGED <<lock, committed, request>>
    /\ \A u \in Thread \ {t} : cursor'[u] = cursor[u] /\ result'[u] = result[u]

LEMMA MoveKeeps ==
    ASSUME CInv, NEW t \in Thread, ~At(t, "idle"), NEW step \in Stage,
           Moves(t, step),
           request[t].op \in Doing(step)
    PROVE  Exclusive' /\ \A u \in Thread : Here(u)'
<1>1. \A u \in Thread : pc'[u] = IF u = t THEN step ELSE pc[u]
  BY DEF Moves, CInv, LocalTypes
<1>2. request' = request /\ lock' = lock
  BY DEF Moves
<1>3. ASSUME NEW u \in Thread PROVE Here(u)'
  <2>1. CASE u = t
    <3>1. request[t] \in Request
      BY DEF CInv, InCall
    <3>2. QED
      BY <1>1, <1>2, <2>1, <3>1 DEF Here, InCall, At, Stage
  <2>2. CASE u # t
    BY <1>1, <1>2, <2>2 DEF Here, InCall, At, CInv, Moves
  <2>3. QED
    BY <2>1, <2>2
<1>4. Exclusive'
  BY <1>1, <1>2 DEF Exclusive, At, CInv, Stage
<1>5. QED
  BY <1>3, <1>4

\* The holder's progress is the holder's business.
LEMMA HolderMoves ==
    ASSUME CInv, NEW t \in Thread, lock = t, lock' = lock, Progress(t)'
    PROVE  HolderInv'
BY ThreadAssumption DEF HolderInv

\* Another thread's step that leaves the shared state alone does not touch it.
LEMMA BystanderKeeps ==
    ASSUME CInv, lock' = lock,
           UNCHANGED <<sessions_, nextSessionId_, keySlots_, committed, uses>>,
           \A u \in Thread : lock = u =>
             /\ pc'[u] = pc[u] /\ request'[u] = request[u] /\ result'[u] = result[u]
             /\ info'[u] = info[u] /\ key'[u] = key[u] /\ count'[u] = count[u]
             /\ cursor'[u] = cursor[u]
    PROVE  HolderInv'
<1>1. Clean => Clean'
  BY DEF Clean, SessionsAre, AllCounted, CountRight
<1>2. ASSUME NEW u \in Thread, lock = u, Progress(u) PROVE Progress(u)'
  <2>1. /\ pc'[u] = pc[u] /\ request'[u] = request[u] /\ result'[u] = result[u]
        /\ info'[u] = info[u] /\ key'[u] = key[u] /\ count'[u] = count[u]
        /\ cursor'[u] = cursor[u]
    BY <1>2
  <2>2. /\ sessions_' = sessions_ /\ nextSessionId_' = nextSessionId_
        /\ keySlots_' = keySlots_ /\ committed' = committed /\ uses' = uses
    OBVIOUS
  <2>3. ASSUME NEW s, NEW x, SlotIs(s, x) PROVE SlotIs(s, x)'
    BY <2>2, <2>3 DEF SlotIs, CountRight
  <2>4. ASSUME NEW x, NEW i, SessionsAre(x, i) PROVE SessionsAre(x, i)'
    BY <2>2, <2>4 DEF SessionsAre, AllCounted, CountRight
  <2>5. /\ Clean => Clean'
        /\ AllCounted => AllCounted'
        /\ Tidy(sessions_) => Tidy(sessions_)'
    BY <2>2 DEF Clean, SessionsAre, AllCounted, CountRight, Tidy
  <2>6. NotBefore(u) => NotBefore(u)'
    BY <2>1, <2>2 DEF NotBefore, Holders
  <2>7. Old(u)' = Old(u) /\ New(u)' = New(u)
    BY <2>1, <2>2 DEF Old, New, Keystore!Filled, Keystore!CopyInto
  <2>8. \A i, x : With(i, x)' = With(i, x)
    BY <2>2 DEF With
  <2>9. ASSUME NEW i, NEW a, Creating(i, a) PROVE Creating(i, a)'
    BY <2>2, <2>4, <2>8, <2>9 DEF Creating, Free, Sessions!First
  <2>10. ASSUME NEW i, NEW x, Closing(u, i, x) PROVE Closing(u, i, x)'
    BY <2>1, <2>2, <2>4, <2>8, <2>10 DEF Closing, Holders, Sessions!First
  <2>11. Admitted(u)' <=> Admitted(u)
    BY <2>1, <2>2 DEF Admitted, IsLive
  <2>12. Permitted(u)' <=> Permitted(u)
    BY <2>1, <2>7, <2>11 DEF Permitted
  <2>13. ASSUME NEW x, Importing(u, x) PROVE Importing(u, x)'
    BY <2>1, <2>3, <2>7, <2>13 DEF Importing
  <2>14. ASSUME NEW x, Deleting(u, x) PROVE Deleting(u, x)'
    BY <2>1, <2>3, <2>7, <2>14 DEF Deleting
  <2>15. ASSUME NEW x, Using(u, x) PROVE Using(u, x)'
    BY <2>1, <2>3, <2>7, <2>12, <2>15 DEF Using
  <2>16. Done(u, request[u].op) => Done(u, request[u].op)'
    BY <2>1, <2>2, <2>4, <2>7, <2>8, <2>10, <2>13, <2>14, <2>15
       DEF Done, Free, Sessions!First, Increased
  <2>17. \A status : Reason(u, request[u].op, status)
           => Reason(u, request[u].op, status)'
    BY <2>1, <2>2, <2>7, <2>11, <2>12 DEF Reason, Free
  <2>18. Finished(u) => Finished(u)'
    <3>1. CASE result[u] # "OK" /\ Clean /\ Reason(u, request[u].op, result[u])
      BY <2>1, <2>5, <2>17, <3>1 DEF Finished
    <3>2. CASE result[u] = "OK" /\ Done(u, request[u].op)
      BY <2>1, <2>16, <3>2 DEF Finished
    <3>3. CASE /\ request[u].op = "getKeySlotInfo" /\ Clean /\ info[u] = Old(u).info
               /\ result[u] = "OK" \/ Fails("keystore", result[u])
      BY <2>1, <2>5, <2>7, <3>3 DEF Finished, Fails
    <3>4. CASE /\ request[u].op = "isSessionValid" /\ Clean
               /\ result[u] = "OK" <=> Admitted(u)
      BY <2>1, <2>5, <2>11, <3>4 DEF Finished
    <3>5. QED
      BY <3>1, <3>2, <3>3, <3>4 DEF Finished
  <2>19. /\ Keyed(u)' = Keyed(u) /\ Flagged(u)' = Flagged(u)
         /\ Described(u)' = Described(u) /\ Unkeyed(u)' = Unkeyed(u)
         /\ Emptied(u)' = Emptied(u) /\ Increased(Old(u))' = Increased(Old(u))
    BY <2>7 DEF Keyed, Flagged, Described, Unkeyed, Emptied, Increased
  <2>20. QED
    <3>1. CASE pc[u] \in {"start", "readId", "readActive"}
      BY <1>2, <2>1, <2>2, <2>5, <2>6, <3>1 DEF Progress, At
    <3>2. CASE pc[u] \in {"activate", "restartIds", "forgetId"}
      BY <1>2, <2>1, <2>9, <2>10, <3>2 DEF Progress, At
    <3>3. CASE pc[u] \in {"writeKey", "occupy", "describe"}
      BY <1>2, <2>1, <2>7, <2>13, <2>19, <3>3 DEF Progress, At
    <3>4. CASE pc[u] \in {"clearKey", "clearInfo", "resetCount"}
      BY <1>2, <2>1, <2>7, <2>13, <2>14, <2>19, <3>4 DEF Progress, At
    <3>5. CASE pc[u] \in {"permissions", "fetch"}
      BY <1>2, <2>1, <2>5, <2>11, <2>12, <3>5 DEF Progress, At
    <3>6. CASE pc[u] \in {"readCount", "writeCount"}
      BY <1>2, <2>1, <2>2, <2>7, <2>15, <3>6 DEF Progress, At, Keystore!NextCount
    <3>7. CASE pc[u] \in {"apply", "return"}
      BY <1>2, <2>1, <2>2, <2>5, <2>7, <2>15, <2>18, <2>19, <3>7 DEF Progress, At
    <3>8. QED
      BY <2>1, <3>1, <3>2, <3>3, <3>4, <3>5, <3>6, <3>7 DEF Progress, At
<1>3. QED
  BY <1>1, <1>2 DEF CInv, HolderInv
-----------------------------------------------------------------------------
(* Threads in isSessionValid(), while another thread takes a step.           *)

\* No open session moves to a lower slot: it stays, or another of its slots
\* remains further up the table, or it is closed.
NotLost == \A id : \A i \in Holders(sessions_, id) :
    ~IsLive(id, sessions_)' \/ \E k \in Holders(sessions_, id)' : k >= i

\* A session that is about to become active does.
ActivationGoesOn == \A w \in Thread : (lock = w /\ At(w, "activate")) =>
    /\ sessions_'[cursor[w]].id = sessions_[cursor[w]].id
    /\ \/ lock' = w /\ pc'[w] = "activate" /\ cursor'[w] = cursor[w]
       \/ sessions_'[cursor[w]].isActive

LEMMA SeenNow ==
    ASSUME Observe, NEW u \in Thread, request'[u].op = "isSessionValid"
    PROVE  answers'[u] = answers[u] \cup
             {IsLive(request'[u].session, sessions_'),
              IsLive(request'[u].session, committed'.sessions)}
BY DEF Observe

LEMMA OthersTracked ==
    ASSUME CInv, Observe, NEW u \in Thread, request[u].op = "isSessionValid",
           pc'[u] = pc[u], request'[u] = request[u], result'[u] = result[u],
           cursor'[u] = cursor[u], NotLost, ActivationGoesOn
    PROVE  Tracked(u)'
<1> DEFINE id == request[u].session
           c == cursor[u]
<1>1. Tracked(u) /\ c \in Sessions!Slot
  BY DEF CInv, ReaderInv, LocalTypes
<1>2. answers'[u] = answers[u] \cup {IsLive(id, sessions_'),
                                     IsLive(id, committed'.sessions)}
  BY SeenNow
<1>3. ASSUME pc[u] \in {"start", "readId", "readActive"}
      PROVE  FALSE \in answers'[u] \/ \E i \in Holders(sessions_', id) : i >= c
  <2>1. CASE FALSE \in answers[u]
    BY <1>2, <2>1
  <2>2. CASE \E i \in Holders(sessions_, id) : i >= c
    <3>1. PICK i \in Holders(sessions_, id) : i >= c
      BY <2>2
    <3>2. CASE ~IsLive(id, sessions_')
      <4>1. IsLive(id, sessions_') = FALSE
        BY <3>2 DEF IsLive
      <4>2. QED
        BY <1>2, <4>1
    <3>3. CASE \E k \in Holders(sessions_', id) : k >= i
      <4>1. PICK k \in Holders(sessions_', id) : k >= i
        BY <3>3
      <4>2. i \in Int /\ k \in Int /\ c \in Int
        BY <1>1, <3>1, <4>1, ServiceAssumption
           DEF Holders, Sessions!Slot, Sessions!SessionAssumption
      <4>3. k >= c
        BY <3>1, <4>1, <4>2
      <4>4. QED
        BY <4>1, <4>3
    <3>4. QED
      BY <3>2, <3>3 DEF NotLost
  <2>3. QED
    BY <1>1, <1>3, <2>1, <2>2 DEF Tracked
<1>4. ASSUME At(u, "readActive"), id # kInvalidSessionId
      PROVE  \/ TRUE \in answers'[u]
             \/ \E w \in Thread : /\ lock' = w /\ pc'[w] = "activate" /\ cursor'[w] = c
                                  /\ sessions_'[c].id = id
  <2>1. CASE TRUE \in answers[u]
    BY <1>2, <2>1
  <2>2. CASE \E w \in Thread : lock = w /\ At(w, "activate") /\ cursor[w] = c
                               /\ sessions_[c].id = id
    <3>1. PICK w \in Thread : lock = w /\ At(w, "activate") /\ cursor[w] = c
                              /\ sessions_[c].id = id
      BY <2>2
    <3>2. CASE sessions_'[c].isActive
      <4>1. IsLive(id, sessions_')
        BY <1>1, <3>1, <3>2 DEF IsLive, ActivationGoesOn
      <4>2. QED
        BY <1>2, <4>1
    <3>3. QED
      BY <3>1, <3>2 DEF ActivationGoesOn
  <2>3. QED
    BY <1>1, <1>4, <2>1, <2>2 DEF Tracked
<1>5. At(u, "return") /\ id # kInvalidSessionId => (result[u] = "OK") \in answers'[u]
  BY <1>1, <1>2 DEF Tracked
<1>6. QED
  BY <1>2, <1>3, <1>4, <1>5 DEF Tracked, At

\* Nothing is lost where the table of sessions stays as it is.
LEMMA SameTableNotLost == sessions_' = sessions_ => NotLost
<1> SUFFICES ASSUME sessions_' = sessions_, NEW id, NEW i \in Holders(sessions_, id)
             PROVE  \E k \in Holders(sessions_, id)' : k >= i
  BY DEF NotLost
<1>1. i \in Holders(sessions_, id)' /\ i >= i
  BY ServiceAssumption DEF Holders, Sessions!Slot, Sessions!SessionAssumption
<1>2. QED
  BY <1>1

\* A step of the holder within its call keeps the invariant if it makes the
\* progress it should.
LEMMA HolderStep ==
    ASSUME CInv, Observe, NEW t \in Thread, lock = t, ~At(t, "idle"),
           request[t].op # "isSessionValid", NEW step \in Stage,
           Moves(t, step),
           request[t].op \in Doing(step), SharedTypes', LocalTypes',
           NotLost, Progress(t)',
           At(t, "activate") => /\ sessions_'[cursor[t]].id = sessions_[cursor[t]].id
                                /\ sessions_'[cursor[t]].isActive
    PROVE  CInv'
<1>1. \A u \in Thread : pc'[u] = IF u = t THEN step ELSE pc[u]
  BY DEF Moves, CInv, LocalTypes
<1>2. request' = request /\ lock' = lock /\ committed' = committed
  BY DEF Moves
<1>3. Exclusive' /\ \A u \in Thread : Here(u)'
  BY MoveKeeps
<1>4. HolderInv'
  BY <1>2, HolderMoves
<1>5. ASSUME NEW u \in Thread, request'[u].op = "isSessionValid" PROVE Tracked(u)'
  <2>1. ActivationGoesOn
    BY DEF ActivationGoesOn
  <2>2. QED
    BY <1>1, <1>2, <1>5, <2>1, OthersTracked DEF Moves
<1>6. ReaderInv'
  BY <1>5 DEF ReaderInv
<1>7. Tidy(committed.sessions)'
  BY <1>2 DEF CInv, Tidy
<1>8. QED
  BY <1>3, <1>4, <1>6, <1>7 DEF CInv, Here

-----------------------------------------------------------------------------
(* Slots that are being written.                                            *)

LEMMA NewSlot ==
    ASSUME NEW r \in Request, r.op = "importKey", Keystore!AcceptableSize(r.data),
           NEW slot \in SlotRecord
    PROVE  Keystore!Filled(slot, r.slot, r.algorithm, r.data, r.permissions)
             \in SlotRecord
<1>1. r.data.size \in 0 .. kMaxKeySize /\ r.data.material \in KeyMaterial
  BY RequestFields, ServiceAssumption
     DEF Keystore!KeystoreAssumption, Keystore!AcceptableSize, Keystore!KeyData
<1>2. Keystore!CopyInto(slot.key.data, r.data)
        \in [Keystore!Cell -> KeyMaterial \cup {Zero}]
  BY <1>1 DEF Keystore!CopyInto, SlotRecord, Keystore!KeyType
<1>3. 0 \in 0 .. CountRange - 1
  BY ServiceAssumption DEF Keystore!KeystoreAssumption
<1>4. r.slot \in Keystore!KeySlot /\ r.algorithm \in Algorithm
      /\ r.permissions \in Permissions
  BY RequestFields
<1>5. QED
  BY <1>1, <1>2, <1>3, <1>4 DEF Keystore!Filled, Keystore!InfoType, Keystore!KeyType,
                               SlotRecord

\* Another slot's memory does not matter for the description.
LEMMA FilledFields ==
    ASSUME NEW slot, NEW s, NEW a, NEW d, NEW p
    PROVE  LET new == Keystore!Filled(slot, s, a, d, p)
           IN  /\ new.info = [id |-> s, isOccupied |-> TRUE, algorithm |-> a,
                              permissions |-> p, keySize |-> d.size]
               /\ new.accessCount = 0
BY DEF Keystore!Filled

\* A thread that writes its slot changes that slot only.
LEMMA SlotWritten ==
    ASSUME CInv, NEW t \in Thread, NEW s \in Keystore!KeySlot, s = request[t].slot,
           NEW old, SlotIs(s, old), NEW new \in SlotRecord, Write(t, new),
           committed' = committed, request' = request,
           \A u \in Keystore!KeySlot \ {s} : uses'[u] = uses[u],
           uses' \in [Keystore!KeySlot -> 0 .. CountRange - 1]
    PROVE  /\ SlotIs(s, new)' /\ keySlots_'[s] = new /\ SharedTypes'
           /\ sessions_' = sessions_
<1>1. /\ keySlots_ \in [Keystore!KeySlot -> SlotRecord]
      /\ committed.slots \in [Keystore!KeySlot -> SlotRecord]
  BY DEF CInv, SharedTypes
<1>2. keySlots_' = [keySlots_ EXCEPT ![s] = new] /\ sessions_' = sessions_
      /\ nextSessionId_' = nextSessionId_ /\ smInitialized_' = smInitialized_
      /\ ksInitialized_' = ksInitialized_ /\ isInitialized_' = isInitialized_
      /\ wiring' = wiring
  BY DEF Write, sessionVars
<1>3. \A u \in Keystore!KeySlot : keySlots_'[u] = IF u = s THEN new ELSE keySlots_[u]
  BY <1>1, <1>2
<1>4. keySlots_' = [committed.slots EXCEPT ![s] = new]
  BY <1>1, <1>2 DEF SlotIs
<1>5. \A u \in Keystore!KeySlot \ {s} : CountRight(u)'
  BY <1>3 DEF SlotIs, CountRight
<1>6. SlotIs(s, new)'
  BY <1>2, <1>4, <1>5 DEF SlotIs
<1>7. SharedTypes'
  BY <1>1, <1>2 DEF CInv, SharedTypes
<1>8. QED
  BY <1>2, <1>3, <1>6, <1>7

LEMMA SlotBefore ==
    ASSUME CInv, NEW s \in Keystore!KeySlot, NEW slot, SlotIs(s, slot)
    PROVE  keySlots_[s] = slot
BY DEF SlotIs, CInv, SharedTypes

LEMMA CleanSlot ==
    ASSUME CInv, NEW s \in Keystore!KeySlot, Clean
    PROVE  SlotIs(s, committed.slots[s]) /\ AllCounted
BY DEF Clean, SessionsAre, SlotIs, AllCounted, CInv, SharedTypes

-----------------------------------------------------------------------------
(* Steps of the holder.                                                     *)

\* What a step says of the thread that takes it.
LEMMA GotoMoves ==
    ASSUME CInv, NEW t \in Thread, NEW step \in Stage, Goto(t, step), UNCHANGED locals
    PROVE  /\ Moves(t, step) /\ LocalTypes' /\ pc'[t] = step
           /\ request' = request /\ committed' = committed
BY DEF CInv, LocalTypes, Goto, locals, Moves

LEMMA FinishMoves ==
    ASSUME CInv, NEW t \in Thread, NEW status \in StatusCode, Finish(t, status),
           UNCHANGED locals
    PROVE  /\ Moves(t, "return") /\ LocalTypes' /\ pc'[t] = "return"
           /\ result'[t] = status /\ request' = request /\ committed' = committed
<1>1. /\ pc' = [pc EXCEPT ![t] = "return"] /\ pc \in [Thread -> Stage \cup {"idle", "start"}]
      /\ result' = [result EXCEPT ![t] = status] /\ result \in [Thread -> StatusCode]
  BY DEF Finish, CInv, LocalTypes
<1>2. /\ request' = request /\ info' = info /\ key' = key /\ count' = count
      /\ cursor' = cursor /\ lock' = lock /\ committed' = committed
  BY DEF Finish, locals
<1>3. /\ pc' \in [Thread -> Stage \cup {"idle", "start"}] /\ result' \in [Thread -> StatusCode]
      /\ pc'[t] = "return" /\ result'[t] = status
      /\ \A u \in Thread \ {t} : result'[u] = result[u]
  BY <1>1 DEF Stage
<1>4. LocalTypes'
  BY <1>2, <1>3 DEF CInv, LocalTypes
<1>5. Moves(t, "return")
  BY <1>1, <1>2, <1>3 DEF Moves
<1>6. QED
  BY <1>2, <1>3, <1>4, <1>5

\* The holder's view of the committed state stays the same until it leaves.
LEMMA OldSame ==
    ASSUME NEW t, request' = request, committed' = committed
    PROVE  /\ Old(t)' = Old(t) /\ New(t)' = New(t) /\ Keyed(t)' = Keyed(t)
           /\ Flagged(t)' = Flagged(t) /\ Described(t)' = Described(t)
           /\ Unkeyed(t)' = Unkeyed(t) /\ Emptied(t)' = Emptied(t)
           /\ Admitted(t)' = Admitted(t) /\ Permitted(t)' = Permitted(t)
<1>1. Old(t)' = Old(t) /\ New(t)' = New(t)
  BY DEF Old, New, Keystore!Filled, Keystore!CopyInto
<1>2. Admitted(t)' = Admitted(t)
  BY DEF Admitted, IsLive
<1>3. QED
  BY <1>1, <1>2 DEF Keyed, Flagged, Described, Unkeyed, Emptied, Permitted

LEMMA ReasonSame ==
    ASSUME NEW t, request' = request, committed' = committed
    PROVE  \A op, status : Reason(t, op, status) => Reason(t, op, status)'
BY OldSame DEF Reason, Free

LEMMA OwnSlot ==
    ASSUME CInv, NEW t \in Thread, ~At(t, "idle"),
           request[t].op \in {"importKey", "deleteKey", "getKeySlotInfo"} \cup Flags
    PROVE  /\ request[t] \in Request /\ request[t].slot \in Keystore!KeySlot
           /\ Old(t) \in SlotRecord
           /\ request[t].op = "importKey" /\ Keystore!AcceptableSize(request[t].data)
                => New(t) \in SlotRecord
<1>1. request[t] \in Request
  BY DEF CInv, InCall
<1>2. request[t].slot \in Keystore!KeySlot
  BY <1>1, RequestFields
<1>3. Old(t) \in SlotRecord
  BY <1>2 DEF Old, CInv, SharedTypes
<1>4. QED
  BY <1>1, <1>2, <1>3, NewSlot DEF New

\* A step that writes the slot.
LEMMA SlotStep ==
    ASSUME CInv, Observe, NEW t \in Thread, lock = t, ~At(t, "idle"),
           ~At(t, "activate"), request[t].op \in {"importKey", "deleteKey"} \cup Flags,
           NEW step \in Stage,
           request[t].op \in Doing(step), Moves(t, step), LocalTypes',
           NEW s, s = request[t].slot, NEW old, SlotIs(s, old),
           NEW new \in SlotRecord, Write(t, new),
           \A u \in Keystore!KeySlot \ {s} : uses'[u] = uses[u],
           uses' \in [Keystore!KeySlot -> 0 .. CountRange - 1],
           SlotIs(s, new)' /\ keySlots_'[s] = new /\ sessions_' = sessions_
             => Progress(t)'
    PROVE  CInv'
<1>1. s \in Keystore!KeySlot
  BY OwnSlot
<1>2. request' = request /\ committed' = committed
  BY DEF Moves
<1>3. /\ SlotIs(s, new)' /\ keySlots_'[s] = new /\ SharedTypes'
      /\ sessions_' = sessions_
  BY <1>1, <1>2, SlotWritten
<1>4. NotLost
  BY <1>3, SameTableNotLost
<1>5. request[t].op # "isSessionValid"
  BY DEF Flags
<1>6. QED
  BY <1>3, <1>4, <1>5, HolderStep

\* A step that leaves the shared state as it is, clean.
LEMMA CleanStep ==
    ASSUME CInv, Observe, NEW t \in Thread, lock = t, ~At(t, "idle"), Clean,
           ~At(t, "activate"), request[t].op # "isSessionValid",
           UNCHANGED <<hsmVars, uses>>,
           NEW step \in Stage,
           request[t].op \in Doing(step), Moves(t, step), LocalTypes',
           Clean' /\ Tidy(sessions_)' => Progress(t)'
    PROVE  CInv'
<1>1. committed' = committed
  BY DEF Moves
<1>2. SharedTypes'
  BY <1>1 DEF CInv, SharedTypes, hsmVars, sessionVars, keystoreVars
<1>3. Clean'
  BY <1>1 DEF Clean, SessionsAre, AllCounted, CountRight, hsmVars, sessionVars,
              keystoreVars
<1>4. sessions_' = sessions_ /\ sessions_ = committed.sessions
  BY DEF hsmVars, sessionVars, Clean, SessionsAre
<1>5. Tidy(sessions_)' /\ NotLost
  BY <1>4, SameTableNotLost DEF CInv, Tidy
<1>6. QED
  BY <1>2, <1>3, <1>5, HolderStep

\* A call that is refused.
LEMMA RefusalStep ==
    ASSUME CInv, Observe, NEW t \in Thread, lock = t, ~At(t, "idle"), Clean,
           ~At(t, "activate"), request[t].op # "isSessionValid",
           UNCHANGED <<hsmVars, uses>>, NEW status \in Refusal,
           Reason(t, request[t].op, status), Moves(t, "return"), LocalTypes',
           pc'[t] = "return", result'[t] = status
    PROVE  CInv'
<1>1. request' = request /\ committed' = committed
  BY DEF Moves
<1>2. Reason(t, request[t].op, status)'
  BY <1>1, ReasonSame
<1>3. status # "OK"
  BY DEF Refusal
<1>4. Clean' => Finished(t)' /\ AllCounted'
  BY <1>1, <1>2, <1>3 DEF Finished, Clean, SessionsAre
<1>5. Clean' /\ Tidy(sessions_)' => Progress(t)'
  BY <1>4 DEF Progress, At
<1>6. request[t].op \in Doing("return")
  BY RequestFields DEF CInv, InCall, Doing
<1>7. "return" \in Stage
  BY DEF Stage
<1>8. QED
  BY <1>5, <1>6, <1>7, CleanStep

-----------------------------------------------------------------------------
(* The steps of importKey() and deleteKey().                                *)

LEMMA WriteKeyStep ==
    ASSUME CInv, WritersLocked, Observe, NEW t \in Thread, WriteKey(t)
    PROVE  CInv'
<1>1. /\ request[t].op = "importKey" /\ ~At(t, "idle") /\ ~At(t, "activate")
      /\ pc[t] = "writeKey"
  BY DEF WriteKey, At, CInv, InCall, Doing
<1>2. lock = t /\ Importing(t, Old(t))
  BY <1>1, WriterHolds DEF Progress, At
<1>3. PICK s, old : s = request[t].slot /\ old = Old(t)
  OBVIOUS
<1>4. s \in Keystore!KeySlot /\ Old(t) \in SlotRecord /\ New(t) \in SlotRecord
  BY <1>1, <1>2, <1>3, OwnSlot DEF Importing
<1>5. SlotIs(s, old)
  BY <1>2, <1>3 DEF Importing
<1>6. Mine(t) = Old(t)
  BY <1>3, <1>4, <1>5, SlotBefore DEF Mine
<1>7. Imported(t) = New(t)
  BY <1>6 DEF Imported, New
<1>8. PICK new : new = Keyed(t)
  OBVIOUS
<1>9. new \in SlotRecord
  BY <1>4, <1>8 DEF Keyed, SlotRecord
<1>10. Write(t, new)
  BY <1>6, <1>7, <1>8 DEF WriteKey, Keyed
<1>11. /\ Moves(t, "occupy") /\ LocalTypes' /\ pc'[t] = "occupy"
       /\ request' = request /\ committed' = committed
  BY <1>10, GotoMoves DEF WriteKey, Write, Stage
<1>12. SlotIs(s, new)' => Progress(t)'
  BY <1>2, <1>3, <1>8, <1>11, OldSame
     DEF Importing, Progress, At, Keystore!AcceptableSize
<1>13. uses' = uses /\ "occupy" \in Stage /\ request[t].op \in Doing("occupy")
  BY <1>1 DEF WriteKey, Stage, Doing
<1>14. QED
  BY <1>1, <1>2, <1>3, <1>5, <1>9, <1>10, <1>11, <1>12, <1>13, SlotStep
     DEF CInv, SharedTypes
LEMMA OccupyStep ==
    ASSUME CInv, WritersLocked, Observe, NEW t \in Thread, Occupy(t)
    PROVE  CInv'
<1>1. /\ request[t].op = "importKey" /\ ~At(t, "idle") /\ ~At(t, "activate")
      /\ pc[t] = "occupy"
  BY DEF Occupy, At, CInv, InCall, Doing
<1>2. lock = t /\ Importing(t, Keyed(t))
  BY <1>1, WriterHolds DEF Progress, At
<1>3. PICK s, old : s = request[t].slot /\ old = Keyed(t)
  OBVIOUS
<1>4. s \in Keystore!KeySlot /\ Old(t) \in SlotRecord /\ New(t) \in SlotRecord
  BY <1>1, <1>2, <1>3, OwnSlot DEF Importing
<1>5. SlotIs(s, old)
  BY <1>2, <1>3 DEF Importing
<1>6. Mine(t) = Keyed(t)
  BY <1>3, <1>4, <1>5, SlotBefore DEF Mine
<1>7. /\ Imported(t).info = New(t).info
      /\ New(t).info.id = s /\ s \in Keystore!KeySlot
  BY <1>3, <1>4 DEF Imported, New, Keystore!Filled
<1>8. PICK new : new = Flagged(t)
  OBVIOUS
<1>9. new \in SlotRecord
  BY <1>4, <1>7, <1>8 DEF Flagged, Keyed, SlotRecord, Keystore!InfoType
<1>10. Write(t, new)
  BY <1>4, <1>6, <1>7, <1>8 DEF Occupy, Flagged, Keyed, SlotRecord, Keystore!InfoType
<1>11. /\ Moves(t, "describe") /\ LocalTypes' /\ pc'[t] = "describe"
       /\ request' = request /\ committed' = committed
  BY <1>10, GotoMoves DEF Occupy, Write, Stage
<1>12. SlotIs(s, new)' => Progress(t)'
  BY <1>1, <1>2, <1>3, <1>8, <1>11, OldSame
     DEF Importing, Progress, At, Keystore!AcceptableSize
<1>13. uses' = uses /\ "describe" \in Stage /\ request[t].op \in Doing("describe")
  BY <1>1 DEF Occupy, Stage, Doing
<1>14. QED
  BY <1>1, <1>2, <1>3, <1>5, <1>9, <1>10, <1>11, <1>12, <1>13, SlotStep
     DEF CInv, SharedTypes

LEMMA DescribeStep ==
    ASSUME CInv, WritersLocked, Observe, NEW t \in Thread, Describe(t)
    PROVE  CInv'
<1>1. /\ request[t].op = "importKey" /\ ~At(t, "idle") /\ ~At(t, "activate")
      /\ pc[t] = "describe"
  BY DEF Describe, At, CInv, InCall, Doing
<1>2. lock = t /\ Importing(t, Flagged(t))
  BY <1>1, WriterHolds DEF Progress, At
<1>3. PICK s, old : s = request[t].slot /\ old = Flagged(t)
  OBVIOUS
<1>4. s \in Keystore!KeySlot /\ Old(t) \in SlotRecord /\ New(t) \in SlotRecord
  BY <1>1, <1>2, <1>3, OwnSlot DEF Importing
<1>5. SlotIs(s, old)
  BY <1>2, <1>3 DEF Importing
<1>6. Mine(t) = Flagged(t)
  BY <1>3, <1>4, <1>5, SlotBefore DEF Mine
<1>7. /\ Imported(t).info = New(t).info
      /\ New(t).info.id = s /\ s \in Keystore!KeySlot
  BY <1>3, <1>4 DEF Imported, New, Keystore!Filled
<1>8. PICK new : new = Described(t)
  OBVIOUS
<1>9. new \in SlotRecord
  BY <1>4, <1>8 DEF Described, SlotRecord
<1>10. Write(t, new)
  BY <1>4, <1>6, <1>7, <1>8 DEF Describe, Described, Flagged, Keyed, SlotRecord
<1>11. /\ Moves(t, "resetCount") /\ LocalTypes' /\ pc'[t] = "resetCount"
       /\ request' = request /\ committed' = committed
  BY <1>10, GotoMoves DEF Describe, Write, Stage
<1>12. SlotIs(s, new)' => Progress(t)'
  BY <1>1, <1>2, <1>3, <1>8, <1>11, OldSame
     DEF Importing, Progress, At, Keystore!AcceptableSize
<1>13. uses' = uses /\ "resetCount" \in Stage /\ request[t].op \in Doing("resetCount")
  BY <1>1 DEF Describe, Stage, Doing
<1>14. QED
  BY <1>1, <1>2, <1>3, <1>5, <1>9, <1>10, <1>11, <1>12, <1>13, SlotStep
     DEF CInv, SharedTypes

LEMMA ClearKeyStep ==
    ASSUME CInv, WritersLocked, Observe, NEW t \in Thread, ClearKey(t)
    PROVE  CInv'
<1>1. /\ request[t].op = "deleteKey" /\ ~At(t, "idle") /\ ~At(t, "activate")
      /\ pc[t] = "clearKey"
  BY DEF ClearKey, At, CInv, InCall, Doing
<1>2. lock = t /\ Deleting(t, Old(t))
  BY <1>1, WriterHolds DEF Progress, At
<1>3. PICK s, old : s = request[t].slot /\ old = Old(t)
  OBVIOUS
<1>4. s \in Keystore!KeySlot /\ Old(t) \in SlotRecord
  BY <1>1, <1>2, <1>3, OwnSlot DEF Deleting
<1>5. SlotIs(s, old)
  BY <1>2, <1>3 DEF Deleting
<1>6. Mine(t) = Old(t)
  BY <1>3, <1>4, <1>5, SlotBefore DEF Mine
<1>8. PICK new : new = Unkeyed(t)
  OBVIOUS
<1>9. new \in SlotRecord
  BY <1>4, <1>8, BlankSlotSound DEF Unkeyed, SlotRecord, Keystore!BlankSlot
<1>10. Write(t, new)
  BY <1>4, <1>6, <1>8 DEF ClearKey, Unkeyed, Keystore!Cleared, Keystore!BlankSlot
<1>11. /\ Moves(t, "clearInfo") /\ LocalTypes' /\ pc'[t] = "clearInfo"
       /\ request' = request /\ committed' = committed
  BY <1>10, GotoMoves DEF ClearKey, Write, Stage
<1>12. SlotIs(s, new)' => Progress(t)'
  BY <1>1, <1>2, <1>3, <1>8, <1>11, OldSame
     DEF Deleting, Progress, At
<1>13. uses' = uses /\ "clearInfo" \in Stage /\ request[t].op \in Doing("clearInfo")
  BY <1>1 DEF ClearKey, Stage, Doing
<1>14. QED
  BY <1>1, <1>2, <1>3, <1>5, <1>9, <1>10, <1>11, <1>12, <1>13, SlotStep
     DEF CInv, SharedTypes

LEMMA ClearInfoStep ==
    ASSUME CInv, WritersLocked, Observe, NEW t \in Thread, ClearInfo(t)
    PROVE  CInv'
<1>1. /\ request[t].op = "deleteKey" /\ ~At(t, "idle") /\ ~At(t, "activate")
      /\ pc[t] = "clearInfo"
  BY DEF ClearInfo, At, CInv, InCall, Doing
<1>2. lock = t /\ Deleting(t, Unkeyed(t))
  BY <1>1, WriterHolds DEF Progress, At
<1>3. PICK s, old : s = request[t].slot /\ old = Unkeyed(t)
  OBVIOUS
<1>4. s \in Keystore!KeySlot /\ Old(t) \in SlotRecord
  BY <1>1, <1>2, <1>3, OwnSlot DEF Deleting
<1>5. SlotIs(s, old)
  BY <1>2, <1>3 DEF Deleting
<1>6. Mine(t) = Unkeyed(t)
  BY <1>3, <1>4, <1>5, SlotBefore DEF Mine
<1>7. [Mine(t) EXCEPT !.info = Keystore!BlankInfo] = Emptied(t)
  <2>1. Mine(t) = [info |-> Old(t).info, key |-> Keystore!BlankKey,
                   accessCount |-> Old(t).accessCount]
    BY <1>4, <1>6 DEF Unkeyed, SlotRecord
  <2>2. Emptied(t) = [info |-> Keystore!BlankInfo, key |-> Keystore!BlankKey,
                      accessCount |-> Old(t).accessCount]
    BY DEF Emptied, Keystore!BlankSlot
  <2>3. QED
    BY <2>1, <2>2
<1>8. PICK new : new = Emptied(t)
  OBVIOUS
<1>9. new \in SlotRecord
  BY <1>4, <1>8, BlankSlotSound DEF Emptied, SlotRecord, Keystore!BlankSlot
<1>10. Write(t, new)
  BY <1>7, <1>8 DEF ClearInfo, Keystore!Cleared, Keystore!BlankSlot
<1>11. /\ Moves(t, "resetCount") /\ LocalTypes' /\ pc'[t] = "resetCount"
       /\ request' = request /\ committed' = committed
  BY <1>10, GotoMoves DEF ClearInfo, Write, Stage
<1>12. SlotIs(s, new)' => Progress(t)'
  BY <1>1, <1>2, <1>3, <1>8, <1>11, OldSame
     DEF Deleting, Progress, At
<1>13. uses' = uses /\ "resetCount" \in Stage /\ request[t].op \in Doing("resetCount")
  BY <1>1 DEF ClearInfo, Stage, Doing
<1>14. QED
  BY <1>1, <1>2, <1>3, <1>5, <1>9, <1>10, <1>11, <1>12, <1>13, SlotStep
     DEF CInv, SharedTypes
\* The last step of both: what is in the slot is described and counted.
LEMMA ResetCountStep ==
    ASSUME CInv, WritersLocked, Observe, NEW t \in Thread, ResetCount(t)
    PROVE  CInv'
<1>1. /\ request[t].op \in {"importKey", "deleteKey"} /\ ~At(t, "idle")
      /\ ~At(t, "activate") /\ pc[t] = "resetCount"
  BY DEF ResetCount, At, CInv, InCall, Doing
<1>2. /\ lock = t
      /\ IF request[t].op = "importKey"
           THEN Importing(t, Described(t)) ELSE Deleting(t, Emptied(t))
  BY <1>1, WriterHolds DEF Progress, At
<1>3. PICK s, old, new :
        /\ s = request[t].slot
        /\ old = IF request[t].op = "importKey" THEN Described(t) ELSE Emptied(t)
        /\ new = IF request[t].op = "importKey" THEN New(t) ELSE Keystore!BlankSlot
  OBVIOUS
<1>4. /\ s \in Keystore!KeySlot /\ Old(t) \in SlotRecord
      /\ request[t].op = "importKey" => New(t) \in SlotRecord
  BY <1>1, <1>2, <1>3, OwnSlot DEF Importing
<1>5. SlotIs(s, old)
  BY <1>2, <1>3 DEF Importing, Deleting
<1>6. Mine(t) = old
  BY <1>3, <1>4, <1>5, SlotBefore DEF Mine
<1>7. [old EXCEPT !.accessCount = 0] = new /\ new.accessCount = 0
  <2>1. CASE request[t].op = "importKey"
    <3>1. New(t).accessCount = 0
      BY DEF New, Keystore!Filled
    <3>2. QED
      BY <1>3, <1>4, <2>1, <3>1 DEF Described, SlotRecord
  <2>2. CASE request[t].op # "importKey"
    <3>1. old = [info |-> Keystore!BlankInfo, key |-> Keystore!BlankKey,
                 accessCount |-> Old(t).accessCount]
      BY <1>3, <2>2 DEF Emptied, Keystore!BlankSlot
    <3>2. new = [info |-> Keystore!BlankInfo, key |-> Keystore!BlankKey,
                 accessCount |-> 0]
      BY <1>3, <2>2 DEF Keystore!BlankSlot
    <3>3. QED
      BY <3>1, <3>2
  <2>3. QED
    BY <2>1, <2>2
<1>8. new \in SlotRecord
  BY <1>3, <1>4, BlankSlotSound
<1>9. Write(t, new)
  BY <1>6, <1>7 DEF ResetCount
<1>10. "OK" \in StatusCode /\ Finish(t, "OK") /\ UNCHANGED locals
  BY DEF ResetCount, StatusCode, Write
<1>11. /\ Moves(t, "return") /\ LocalTypes' /\ pc'[t] = "return"
       /\ result'[t] = "OK" /\ request' = request /\ committed' = committed
  BY <1>10, FinishMoves
<1>12. /\ uses'[s] = 0 /\ \A u \in Keystore!KeySlot \ {s} : uses'[u] = uses[u]
       /\ uses' \in [Keystore!KeySlot -> 0 .. CountRange - 1]
  <2>1. 0 \in 0 .. CountRange - 1
    BY ServiceAssumption DEF Keystore!KeystoreAssumption
  <2>2. QED
    BY <1>3, <1>4, <2>1 DEF ResetCount, CInv, SharedTypes
<1>13. ASSUME SlotIs(s, new)', keySlots_'[s] = new, sessions_' = sessions_
       PROVE  Progress(t)'
  <2>1. AllCounted'
    BY <1>7, <1>12, <1>13 DEF AllCounted, SlotIs, CountRight
  <2>2. Tidy(sessions_)'
    BY <1>5, <1>11, <1>13 DEF CInv, SlotIs, Tidy
  <2>3. Done(t, request[t].op)'
    BY <1>1, <1>2, <1>3, <1>11, <1>13, OldSame
       DEF Done, Importing, Deleting, Keystore!AcceptableSize, Keystore!BlankSlot,
           Keystore!BlankKey, Keystore!BlankInfo, Keystore!BlankMemory
  <2>4. QED
    BY <1>11, <2>1, <2>2, <2>3 DEF Progress, At, Finished
<1>14. "return" \in Stage /\ request[t].op \in Doing("return")
  BY RequestFields DEF Stage, Doing, CInv, InCall, At, ResetCount
<1>15. QED
  BY <1>1, <1>2, <1>3, <1>5, <1>8, <1>9, <1>11, <1>12, <1>13, <1>14, SlotStep

LEMMA StartImportStep ==
    ASSUME CInv, WritersLocked, Observe, NEW t \in Thread, StartImport(t)
    PROVE  CInv'
<1>1. /\ request[t].op = "importKey" /\ ~At(t, "idle") /\ ~At(t, "activate")
      /\ pc[t] = "start"
  BY DEF StartImport, Calls, At
<1>2. lock = t /\ Clean
  BY <1>1, WriterHolds DEF Progress, At
<1>3. PICK s : s = request[t].slot
  OBVIOUS
<1>4. s \in Keystore!KeySlot /\ Old(t) \in SlotRecord
  BY <1>1, <1>3, OwnSlot
<1>5. Mine(t) = Old(t)
  BY <1>2 DEF Clean, SessionsAre, Mine, Old
<1>6. isInitialized_ = TRUE /\ ksInitialized_ = TRUE
  BY DEF CInv, SharedTypes
<1>7. UNCHANGED locals /\ uses' = uses
  BY DEF StartImport
<1>8. CASE \E status \in Refusal :
             /\ importKey(request[t].slot, request[t].algorithm, request[t].data,
                          request[t].permissions, status)
             /\ Finish(t, status)
  <2>1. PICK status \in Refusal :
             /\ importKey(request[t].slot, request[t].algorithm, request[t].data,
                          request[t].permissions, status)
             /\ Finish(t, status)
    BY <1>8
  <2>2. status # "OK" /\ status \in StatusCode
    BY DEF Refusal
  <2>3. UNCHANGED <<hsmVars, uses>>
    BY <1>7, <2>1, <2>2, ImportEffect
       DEF FacadeSame, SessionsSame, KeystoreSame, hsmVars
  <2>4. Reason(t, "importKey", status)
    BY <1>3, <1>4, <1>5, <1>6, <2>1, <2>2
       DEF importKey, RefusedWhileDown, CallKeystore, Keystore!importKey,
           Keystore!isValidSlotId, Keystore!isSlotOccupied, Reason, Mine, Fails
  <2>5. /\ Moves(t, "return") /\ LocalTypes' /\ pc'[t] = "return"
        /\ result'[t] = status
    BY <1>7, <2>1, <2>2, FinishMoves
  <2>6. QED
    BY <1>1, <1>2, <2>3, <2>4, <2>5, RefusalStep
<1>9. CASE /\ Keystore!AcceptableSize(request[t].data)
           /\ ~Keystore!isSlotOccupied(request[t].slot)
           /\ Goto(t, "writeKey") /\ UNCHANGED hsmVars
  <2>1. "writeKey" \in Stage /\ request[t].op \in Doing("writeKey")
    BY <1>1 DEF Stage, Doing
  <2>2. /\ Moves(t, "writeKey") /\ LocalTypes' /\ pc'[t] = "writeKey"
        /\ request' = request /\ committed' = committed
    BY <1>7, <1>9, <2>1, GotoMoves
  <2>3. ~Old(t).info.isOccupied
    BY <1>3, <1>4, <1>5, <1>9
       DEF Mine, Keystore!isSlotOccupied, Keystore!isValidSlotId
  <2>4. SlotIs(s, Old(t))
    BY <1>2, <1>3, <1>4, CleanSlot DEF Old
  <2>5. SlotIs(s, Old(t))'
    BY <1>7, <1>9, <2>2, <2>4, OldSame
       DEF SlotIs, CountRight, hsmVars, sessionVars, keystoreVars
  <2>6. Progress(t)'
    BY <1>3, <1>9, <2>2, <2>3, <2>5, OldSame
       DEF Progress, At, Importing, Keystore!AcceptableSize
  <2>7. QED
    BY <1>1, <1>2, <1>7, <1>9, <2>1, <2>2, <2>6, CleanStep
<1>10. QED
  BY <1>8, <1>9 DEF StartImport

LEMMA StartDeleteStep ==
    ASSUME CInv, WritersLocked, Observe, NEW t \in Thread, StartDelete(t)
    PROVE  CInv'
<1>1. /\ request[t].op = "deleteKey" /\ ~At(t, "idle") /\ ~At(t, "activate")
      /\ pc[t] = "start"
  BY DEF StartDelete, Calls, At
<1>2. lock = t /\ Clean
  BY <1>1, WriterHolds DEF Progress, At
<1>3. PICK s : s = request[t].slot
  OBVIOUS
<1>4. s \in Keystore!KeySlot /\ Old(t) \in SlotRecord
  BY <1>1, <1>3, OwnSlot
<1>5. Mine(t) = Old(t)
  BY <1>2 DEF Clean, SessionsAre, Mine, Old
<1>6. isInitialized_ = TRUE /\ ksInitialized_ = TRUE
  BY DEF CInv, SharedTypes
<1>7. UNCHANGED locals /\ uses' = uses
  BY DEF StartDelete
<1>8. CASE \E status \in Refusal :
             deleteKey(request[t].slot, status) /\ Finish(t, status)
  <2>1. PICK status \in Refusal :
             deleteKey(request[t].slot, status) /\ Finish(t, status)
    BY <1>8
  <2>2. status # "OK" /\ status \in StatusCode
    BY DEF Refusal
  <2>3. UNCHANGED <<hsmVars, uses>>
    BY <1>7, <2>1, <2>2, DeleteEffect
       DEF FacadeSame, SessionsSame, KeystoreSame, hsmVars
  <2>4. Reason(t, "deleteKey", status)
    BY <1>3, <1>4, <1>5, <1>6, <2>1, <2>2
       DEF deleteKey, RefusedWhileDown, CallKeystore, Keystore!deleteKey,
           Keystore!isValidSlotId, Keystore!isSlotOccupied, Reason, Mine, Fails
  <2>5. /\ Moves(t, "return") /\ LocalTypes' /\ pc'[t] = "return"
        /\ result'[t] = status
    BY <1>7, <2>1, <2>2, FinishMoves
  <2>6. QED
    BY <1>1, <1>2, <2>3, <2>4, <2>5, RefusalStep
<1>9. CASE /\ Keystore!isSlotOccupied(request[t].slot)
           /\ Goto(t, "clearKey") /\ UNCHANGED hsmVars
  <2>1. "clearKey" \in Stage /\ request[t].op \in Doing("clearKey")
    BY <1>1 DEF Stage, Doing
  <2>2. /\ Moves(t, "clearKey") /\ LocalTypes' /\ pc'[t] = "clearKey"
        /\ request' = request /\ committed' = committed
    BY <1>7, <1>9, <2>1, GotoMoves
  <2>3. Old(t).info.isOccupied
    BY <1>5, <1>9 DEF Mine, Keystore!isSlotOccupied
  <2>4. SlotIs(s, Old(t))
    BY <1>2, <1>3, <1>4, CleanSlot DEF Old
  <2>5. SlotIs(s, Old(t))'
    BY <1>7, <1>9, <2>2, <2>4, OldSame
       DEF SlotIs, CountRight, hsmVars, sessionVars, keystoreVars
  <2>6. Progress(t)'
    BY <1>3, <2>2, <2>3, <2>5, OldSame DEF Progress, At, Deleting
  <2>7. QED
    BY <1>1, <1>2, <1>7, <1>9, <2>1, <2>2, <2>6, CleanStep
<1>10. QED
  BY <1>8, <1>9 DEF StartDelete
-----------------------------------------------------------------------------
(* The steps of encrypt() and decrypt().                                    *)

LEMMA CheckSessionStep ==
    ASSUME CInv, WritersLocked, Observe, NEW t \in Thread, CheckSession(t)
    PROVE  CInv'
<1>1. /\ request[t].op \in Flags /\ ~At(t, "idle") /\ ~At(t, "activate")
      /\ pc[t] = "start"
  BY DEF CheckSession, Calls, At
<1>2. lock = t /\ Clean
  BY <1>1, WriterHolds DEF Progress, At, Flags
<1>3. isSessionValid(request[t].session) <=> Admitted(t)
  BY <1>2 DEF isSessionValid, Sessions!isSessionValid, Sessions!LiveIds,
              Sessions!ActiveSlots, Admitted, IsLive, Clean, SessionsAre,
              CInv, SharedTypes
<1>4. UNCHANGED <<hsmVars, uses>> /\ UNCHANGED locals
  BY DEF CheckSession
<1>5. request[t].op # "isSessionValid"
  BY <1>1 DEF Flags
<1>6. CASE isSessionValid(request[t].session)
  <2>1. "permissions" \in Stage /\ request[t].op \in Doing("permissions")
    BY <1>1 DEF Stage, Doing
  <2>2. /\ Moves(t, "permissions") /\ LocalTypes' /\ pc'[t] = "permissions"
        /\ request' = request /\ committed' = committed
    BY <1>4, <1>6, <2>1, GotoMoves DEF CheckSession
  <2>3. Clean' => Progress(t)'
    BY <1>3, <1>6, <2>2, OldSame DEF Progress, At
  <2>4. QED
    BY <1>1, <1>2, <1>4, <1>5, <2>1, <2>2, <2>3, CleanStep
<1>7. CASE ~isSessionValid(request[t].session)
  <2>1. PICK status : status = "ERR_SESSION_INVALID"
    OBVIOUS
  <2>2. status \in Refusal /\ status \in StatusCode
    BY <2>1 DEF Refusal, StatusCode
  <2>3. /\ Moves(t, "return") /\ LocalTypes' /\ pc'[t] = "return"
        /\ result'[t] = status
    BY <1>4, <1>7, <2>1, <2>2, FinishMoves DEF CheckSession
  <2>4. Reason(t, request[t].op, status)
    BY <1>1, <1>3, <1>7, <2>1 DEF Reason
  <2>5. QED
    BY <1>1, <1>2, <1>4, <1>5, <2>2, <2>3, <2>4, RefusalStep
<1>8. QED
  BY <1>6, <1>7

LEMMA CheckPermissionsStep ==
    ASSUME CInv, WritersLocked, Observe, NEW t \in Thread, CheckPermissions(t)
    PROVE  CInv'
<1>1. /\ request[t].op \in Flags /\ ~At(t, "idle") /\ ~At(t, "activate")
      /\ pc[t] = "permissions"
  BY DEF CheckPermissions, At, CInv, InCall, Doing
<1>2. lock = t /\ Clean /\ Admitted(t)
  BY <1>1, WriterHolds DEF Progress, At, Flags
<1>3. Old(t) \in SlotRecord /\ Mine(t) = Old(t)
  BY <1>1, <1>2, OwnSlot DEF Clean, SessionsAre, Mine, Old
<1>4. Mine(t).info \in Keystore!InfoType /\ info \in [Thread -> Keystore!InfoType]
  BY <1>3 DEF SlotRecord, CInv, LocalTypes
<1>5. info'[t] = Old(t).info /\ info' \in [Thread -> Keystore!InfoType]
  BY <1>3, <1>4 DEF CheckPermissions
<1>6. UNCHANGED <<hsmVars, uses>> /\ UNCHANGED <<request, key, count, cursor>>
  BY DEF CheckPermissions
<1>7. request[t].op # "isSessionValid"
  BY <1>1 DEF Flags
<1>8. CASE request[t].op \in info'[t].permissions
  <2>1. "fetch" \in Stage /\ request[t].op \in Doing("fetch")
    BY <1>1 DEF Stage, Doing
  <2>2. Goto(t, "fetch")
    BY <1>8 DEF CheckPermissions
  <2>3. /\ Moves(t, "fetch") /\ LocalTypes' /\ pc'[t] = "fetch"
        /\ committed' = committed
    BY <1>5, <1>6, <2>1, <2>2 DEF Goto, Moves, CInv, LocalTypes
  <2>4. Permitted(t)
    BY <1>2, <1>5, <1>8 DEF Permitted
  <2>5. Clean' => Progress(t)'
    BY <1>6, <2>3, <2>4, OldSame DEF Progress, At
  <2>6. QED
    BY <1>1, <1>2, <1>6, <1>7, <2>1, <2>3, <2>5, CleanStep
<1>9. CASE request[t].op \notin info'[t].permissions
  <2>1. PICK status : status = "ERR_AUTH_FAILED"
    OBVIOUS
  <2>2. status \in Refusal /\ status \in StatusCode
    BY <2>1 DEF Refusal, StatusCode
  <2>3. Finish(t, status)
    BY <1>9, <2>1 DEF CheckPermissions
  <2>4. /\ pc' \in [Thread -> Stage \cup {"idle", "start"}]
        /\ result' \in [Thread -> StatusCode]
        /\ pc'[t] = "return" /\ result'[t] = status
        /\ \A u \in Thread \ {t} : result'[u] = result[u]
    BY <2>2, <2>3 DEF Finish, CInv, LocalTypes, Stage
  <2>5. Moves(t, "return") /\ LocalTypes'
    BY <1>5, <1>6, <2>3, <2>4 DEF Finish, Moves, CInv, LocalTypes
  <2>6. Reason(t, request[t].op, status)
    BY <1>1, <1>2, <1>5, <1>9, <2>1 DEF Reason, Permitted
  <2>7. QED
    BY <1>1, <1>2, <1>6, <1>7, <2>2, <2>4, <2>5, <2>6, RefusalStep
<1>10. QED
  BY <1>8, <1>9

LEMMA FetchKeyStep ==
    ASSUME CInv, WritersLocked, Observe, NEW t \in Thread, FetchKey(t)
    PROVE  CInv'
<1>1. /\ request[t].op \in Flags /\ ~At(t, "idle") /\ ~At(t, "activate")
      /\ pc[t] = "fetch" /\ request[t].op # "isSessionValid"
  BY DEF FetchKey, At, CInv, InCall, Doing, Flags
<1>2. lock = t /\ Clean /\ Permitted(t)
  BY <1>1, WriterHolds DEF Progress, At, Flags
<1>3. PICK s : s = request[t].slot
  OBVIOUS
<1>4. s \in Keystore!KeySlot /\ Old(t) \in SlotRecord
  BY <1>1, <1>3, OwnSlot
<1>5. Mine(t) = Old(t) /\ keySlots_[s] = Old(t)
  BY <1>2, <1>3 DEF Clean, SessionsAre, Mine, Old
<1>6. UNCHANGED hsmVars /\ UNCHANGED <<request, info, count, cursor>>
  BY DEF FetchKey
<1>7. CASE Mine(t).info.isOccupied
  <2>1. "readCount" \in Stage /\ request[t].op \in Doing("readCount")
    BY <1>1 DEF Stage, Doing
  <2>2. /\ key' = [key EXCEPT ![t] = Mine(t).key]
        /\ uses' = [uses EXCEPT ![s] = Keystore!NextCount(@)]
        /\ Goto(t, "readCount")
    BY <1>3, <1>7 DEF FetchKey
  <2>3. /\ key'[t] = Old(t).key /\ key' \in [Thread -> Keystore!KeyType]
    BY <1>4, <1>5, <2>2 DEF CInv, LocalTypes, SlotRecord
  <2>4. /\ Moves(t, "readCount") /\ LocalTypes' /\ pc'[t] = "readCount"
        /\ request' = request /\ committed' = committed
    BY <1>6, <2>1, <2>2, <2>3 DEF Goto, Moves, CInv, LocalTypes
  <2>5. Keystore!NextCount(uses[s]) \in 0 .. CountRange - 1
    BY <1>4, ServiceAssumption
       DEF Keystore!NextCount, Keystore!KeystoreAssumption, CInv, SharedTypes
  <2>6. /\ uses' \in [Keystore!KeySlot -> 0 .. CountRange - 1]
        /\ uses'[s] = Keystore!NextCount(uses[s])
        /\ \A u \in Keystore!KeySlot \ {s} : uses'[u] = uses[u]
    BY <1>4, <2>2, <2>5 DEF CInv, SharedTypes
  <2>7. SlotIs(s, Old(t)) /\ Old(t).accessCount = uses[s]
    BY <1>2, <1>3, <1>4, <1>5, <1>7, CleanSlot DEF Old, AllCounted, CountRight
  <2>8. PICK old : old = Old(t)
    OBVIOUS
  <2>9. SlotIs(s, old)'
    BY <1>6, <2>4, <2>6, <2>7, <2>8
       DEF SlotIs, CountRight, hsmVars, sessionVars, keystoreVars
  <2>10. Progress(t)'
    <3>1. Using(t, Old(t))'
      BY <1>2, <1>3, <1>5, <1>7, <2>4, <2>8, <2>9, OldSame DEF Using
    <3>2. Keystore!NextCount(Old(t).accessCount)' = uses'[s]
      BY <2>4, <2>6, <2>7, OldSame DEF Keystore!NextCount
    <3>3. QED
      BY <1>3, <2>3, <2>4, <3>1, <3>2, OldSame DEF Progress, At
  <2>11. SharedTypes' /\ NotLost
    BY <1>6, <2>4, <2>6, SameTableNotLost
       DEF SharedTypes, CInv, hsmVars, sessionVars, keystoreVars
  <2>12. QED
    BY <1>1, <1>2, <2>1, <2>4, <2>10, <2>11, HolderStep
<1>8. CASE ~Mine(t).info.isOccupied
  <2>1. PICK status : status = "ERR_INVALID_KEY_ID"
    OBVIOUS
  <2>2. status \in Refusal /\ status \in StatusCode
    BY <2>1 DEF Refusal, StatusCode
  <2>3. Finish(t, status) /\ uses' = uses /\ UNCHANGED locals
    BY <1>6, <1>8, <2>1 DEF FetchKey, locals
  <2>4. /\ Moves(t, "return") /\ LocalTypes' /\ pc'[t] = "return"
        /\ result'[t] = status
    BY <2>2, <2>3, FinishMoves
  <2>5. Reason(t, request[t].op, status)
    BY <1>1, <1>2, <1>5, <1>8, <2>1 DEF Reason
  <2>6. QED
    BY <1>1, <1>2, <1>6, <2>2, <2>3, <2>4, <2>5, RefusalStep
<1>9. QED
  BY <1>7, <1>8
LEMMA ReadCountStep ==
    ASSUME CInv, WritersLocked, Observe, NEW t \in Thread, ReadCount(t)
    PROVE  CInv'
<1>1. /\ request[t].op \in Flags /\ ~At(t, "idle") /\ ~At(t, "activate")
      /\ pc[t] = "readCount" /\ request[t].op # "isSessionValid"
  BY DEF ReadCount, At, CInv, InCall, Doing, Flags
<1>2. /\ lock = t /\ Using(t, Old(t)) /\ key[t] = Old(t).key
      /\ Keystore!NextCount(Old(t).accessCount) = uses[request[t].slot]
  BY <1>1, WriterHolds DEF Progress, At, Flags
<1>3. PICK s, old : s = request[t].slot /\ old = Old(t)
  OBVIOUS
<1>4. s \in Keystore!KeySlot /\ Old(t) \in SlotRecord
  BY <1>1, <1>3, OwnSlot
<1>5. SlotIs(s, old) /\ Mine(t) = Old(t)
  BY <1>2, <1>3, <1>4, SlotBefore DEF Using, Mine
<1>6. UNCHANGED hsmVars /\ UNCHANGED <<request, info, key, cursor, uses>>
  BY DEF ReadCount
<1>7. count'[t] = Old(t).accessCount /\ count' \in [Thread -> 0 .. CountRange - 1]
  BY <1>4, <1>5 DEF ReadCount, CInv, LocalTypes, SlotRecord
<1>8. "writeCount" \in Stage /\ request[t].op \in Doing("writeCount")
  BY <1>1 DEF Stage, Doing
<1>9. /\ Moves(t, "writeCount") /\ LocalTypes' /\ pc'[t] = "writeCount"
      /\ committed' = committed
  BY <1>6, <1>7, <1>8 DEF ReadCount, Goto, Moves, CInv, LocalTypes
<1>10. SlotIs(s, old)'
  BY <1>5, <1>6, <1>9 DEF SlotIs, CountRight, hsmVars, sessionVars, keystoreVars
<1>11. Progress(t)'
  <2>1. Using(t, Old(t))'
    BY <1>2, <1>3, <1>6, <1>9, <1>10, OldSame DEF Using
  <2>2. /\ key'[t] = Old(t)'.key /\ count'[t] = Old(t)'.accessCount
        /\ Keystore!NextCount(Old(t).accessCount)' = uses'[request'[t].slot]
    BY <1>2, <1>6, <1>7, <1>9, OldSame DEF Keystore!NextCount
  <2>3. QED
    BY <1>9, <2>1, <2>2 DEF Progress, At
<1>12. SharedTypes' /\ NotLost
  BY <1>6, <1>9, SameTableNotLost
     DEF SharedTypes, CInv, hsmVars, sessionVars, keystoreVars
<1>13. QED
  BY <1>1, <1>2, <1>8, <1>9, <1>11, <1>12, HolderStep

\* accessCount++ ends: the counter has caught up with the key that was fetched.
LEMMA WriteCountStep ==
    ASSUME CInv, WritersLocked, Observe, NEW t \in Thread, WriteCount(t)
    PROVE  CInv'
<1>1. /\ request[t].op \in Flags /\ ~At(t, "idle") /\ ~At(t, "activate")
      /\ pc[t] = "writeCount"
  BY DEF WriteCount, At, CInv, InCall, Doing, Flags
<1>2. /\ lock = t /\ Using(t, Old(t)) /\ key[t] = Old(t).key
      /\ Keystore!NextCount(Old(t).accessCount) = uses[request[t].slot]
      /\ count[t] = Old(t).accessCount
  BY <1>1, WriterHolds DEF Progress, At, Flags
<1>3. PICK s, old : s = request[t].slot /\ old = Old(t)
  OBVIOUS
<1>4. s \in Keystore!KeySlot /\ Old(t) \in SlotRecord
  BY <1>1, <1>3, OwnSlot
<1>5. SlotIs(s, old) /\ Mine(t) = Old(t)
  BY <1>2, <1>3, <1>4, SlotBefore DEF Using, Mine
<1>6. PICK new : new = Increased(Old(t))
  OBVIOUS
<1>7. new \in SlotRecord /\ new.accessCount = uses[s]
  <2>1. uses[s] \in 0 .. CountRange - 1
    BY <1>4 DEF CInv, SharedTypes
  <2>2. QED
    BY <1>2, <1>3, <1>4, <1>6, <2>1 DEF Increased, SlotRecord
<1>8. Write(t, new)
  BY <1>2, <1>5, <1>6 DEF WriteCount, Increased
<1>9. "apply" \in Stage /\ request[t].op \in Doing("apply")
  BY <1>1 DEF Stage, Doing
<1>10. /\ Moves(t, "apply") /\ LocalTypes' /\ pc'[t] = "apply"
       /\ request' = request /\ committed' = committed
  BY <1>8, <1>9, GotoMoves DEF WriteCount, Write
<1>11. uses' = uses /\ key' = key
  BY <1>8 DEF WriteCount, Write, locals
<1>12. ASSUME SlotIs(s, new)', keySlots_'[s] = new PROVE Progress(t)'
  <2>1. AllCounted'
    BY <1>7, <1>11, <1>12 DEF AllCounted, SlotIs, CountRight
  <2>2. Increased(Old(t))' = new
    BY <1>6, <1>10, OldSame DEF Increased, Keystore!NextCount
  <2>3. Using(t, Increased(Old(t)))'
    BY <1>2, <1>3, <1>10, <1>12, <2>2, OldSame DEF Using
  <2>4. key'[t] = Old(t)'.key
    BY <1>2, <1>10, <1>11, OldSame
  <2>5. QED
    BY <1>10, <2>1, <2>3, <2>4 DEF Progress, At
<1>13. uses \in [Keystore!KeySlot -> 0 .. CountRange - 1]
  BY DEF CInv, SharedTypes
<1>14. QED
  BY <1>1, <1>2, <1>3, <1>5, <1>7, <1>8, <1>9, <1>10, <1>11, <1>12, <1>13, SlotStep

LEMMA ApplyStep ==
    ASSUME CInv, WritersLocked, Observe, NEW t \in Thread, Apply(t)
    PROVE  CInv'
<1>1. /\ request[t].op \in Flags /\ ~At(t, "idle") /\ ~At(t, "activate")
      /\ pc[t] = "apply" /\ request[t].op # "isSessionValid"
  BY DEF Apply, At, CInv, InCall, Doing, Flags
<1>2. lock = t /\ Using(t, Increased(Old(t))) /\ AllCounted
  BY <1>1, WriterHolds DEF Progress, At, Flags
<1>3. PICK s, old : s = request[t].slot /\ old = Increased(Old(t))
  OBVIOUS
<1>4. SlotIs(s, old)
  BY <1>2, <1>3 DEF Using
<1>5. UNCHANGED hsmVars /\ UNCHANGED <<request, info, cursor, uses>>
  BY DEF Apply
<1>6. /\ pc' \in [Thread -> Stage \cup {"idle", "start"}]
      /\ result' \in [Thread -> StatusCode]
      /\ pc'[t] = "return" /\ result'[t] = "OK"
      /\ \A u \in Thread \ {t} : result'[u] = result[u]
  BY DEF Apply, Finish, CInv, LocalTypes, Stage, StatusCode
<1>7. /\ key' \in [Thread -> Keystore!KeyType]
      /\ count' \in [Thread -> 0 .. CountRange - 1]
  <2>1. Keystore!BlankKey \in Keystore!KeyType /\ 0 \in 0 .. CountRange - 1
    BY BlankSlotSound DEF Keystore!BlankSlot, SlotRecord
  <2>2. QED
    BY <2>1 DEF Apply, CInv, LocalTypes
<1>8. /\ Moves(t, "return") /\ LocalTypes' /\ committed' = committed
  BY <1>5, <1>6, <1>7 DEF Apply, Finish, Moves, CInv, LocalTypes
<1>9. "return" \in Stage /\ request[t].op \in Doing("return")
  BY RequestFields DEF Stage, Doing, CInv, InCall, At, Apply
<1>10. SlotIs(s, old)' /\ AllCounted'
  BY <1>2, <1>4, <1>5, <1>8
     DEF SlotIs, AllCounted, CountRight, hsmVars, sessionVars, keystoreVars
<1>11. Progress(t)'
  <2>1. Increased(Old(t))' = old
    BY <1>3, <1>5, <1>8, OldSame DEF Increased, Keystore!NextCount
  <2>2. Done(t, request[t].op)'
    BY <1>1, <1>2, <1>3, <1>5, <1>8, <1>10, <2>1, OldSame DEF Done, Using
  <2>3. Tidy(sessions_)'
    BY <1>4, <1>5, <1>8 DEF Tidy, SlotIs, CInv, hsmVars, sessionVars
  <2>4. QED
    BY <1>6, <1>10, <2>2, <2>3 DEF Progress, At, Finished
<1>12. SharedTypes' /\ NotLost
  BY <1>5, <1>8, SameTableNotLost
     DEF SharedTypes, CInv, hsmVars, sessionVars, keystoreVars
<1>13. QED
  BY <1>1, <1>2, <1>8, <1>9, <1>11, <1>12, HolderStep

-----------------------------------------------------------------------------
(* The steps of createSession() and closeSession().                         *)

\* What the code assigns to one field of a session.
LEMMA SessionFields ==
    ASSUME NEW m, NEW b, NEW n, NEW c
    PROVE  /\ [[id |-> m, isActive |-> b] EXCEPT !.id = n] = [id |-> n, isActive |-> b]
           /\ [[id |-> m, isActive |-> b] EXCEPT !.isActive = c]
                = [id |-> m, isActive |-> c]
<1> DEFINE r == [id |-> m, isActive |-> b]
           p == [r EXCEPT !.id = n]
           q == [r EXCEPT !.isActive = c]
<1>1. DOMAIN r = {"id", "isActive"} /\ r.id = m /\ r.isActive = b
  OBVIOUS
<1>2. DOMAIN p = DOMAIN r /\ p.id = n /\ p.isActive = b
  BY <1>1
<1>3. DOMAIN q = DOMAIN r /\ q.id = m /\ q.isActive = c
  BY <1>1
<1>4. /\ p = [x \in {"id", "isActive"} |-> p[x]]
      /\ q = [x \in {"id", "isActive"} |-> q[x]]
  BY <1>1, <1>2, <1>3
<1>5. QED
  BY <1>1, <1>2, <1>3, <1>4

LEMMA SessionWritten ==
    ASSUME CInv, NEW i \in Sessions!Slot, NEW x \in SessionRecord, WriteSession(i, x),
           nextSessionId_' \in Sessions!SessionId, uses' = uses,
           committed' = committed
    PROVE  /\ SharedTypes' /\ sessions_' = [sessions_ EXCEPT ![i] = x]
           /\ \A j \in Sessions!Slot :
                sessions_'[j] = IF j = i THEN x ELSE sessions_[j]
           /\ keySlots_' = keySlots_ /\ (AllCounted => AllCounted')
<1>1. /\ sessions_ \in [Sessions!Slot -> SessionRecord]
      /\ sessions_' = [sessions_ EXCEPT ![i] = x]
      /\ keySlots_' = keySlots_ /\ smInitialized_' = smInitialized_
      /\ ksInitialized_' = ksInitialized_ /\ isInitialized_' = isInitialized_
      /\ wiring' = wiring
  BY DEF CInv, SharedTypes, WriteSession, keystoreVars
<1>2. /\ sessions_' \in [Sessions!Slot -> SessionRecord]
      /\ \A j \in Sessions!Slot :
           sessions_'[j] = IF j = i THEN x ELSE sessions_[j]
  BY <1>1
<1>3. SharedTypes'
  BY <1>1, <1>2 DEF CInv, SharedTypes
<1>4. AllCounted => AllCounted'
  BY <1>1 DEF AllCounted, CountRight
<1>5. QED
  BY <1>1, <1>2, <1>3, <1>4

\* A step that moves the cursor.
LEMMA CursorMoves ==
    ASSUME CInv, NEW t \in Thread, NEW step \in Stage, Goto(t, step),
           NEW i \in Sessions!Slot, cursor' = [cursor EXCEPT ![t] = i],
           UNCHANGED <<request, info, key, count>>
    PROVE  /\ Moves(t, step) /\ LocalTypes' /\ pc'[t] = step /\ cursor'[t] = i
           /\ request' = request /\ committed' = committed
<1>1. /\ pc' \in [Thread -> Stage \cup {"idle", "start"}] /\ pc'[t] = step
      /\ cursor' \in [Thread -> Sessions!Slot] /\ cursor'[t] = i
      /\ \A u \in Thread \ {t} : cursor'[u] = cursor[u]
  BY DEF CInv, LocalTypes, Goto
<1>2. LocalTypes'
  BY <1>1 DEF CInv, LocalTypes, Goto
<1>3. QED
  BY <1>1, <1>2 DEF Moves, Goto

\* The table between calls has the types of the session manager.
LEMMA CleanTypes == CInv /\ Clean => Sessions!SMTypeOK
BY DEF CInv, SharedTypes, Clean, SessionsAre, Sessions!SMTypeOK, SessionRecord

\* Nothing is lost where no open session changes.
LEMMA OpenStayNotLost ==
    ASSUME \A i \in Sessions!Slot :
             sessions_[i].isActive => sessions_'[i] = sessions_[i]
    PROVE  NotLost
<1> SUFFICES ASSUME NEW id, NEW i \in Holders(sessions_, id)
             PROVE  \E k \in Holders(sessions_, id)' : k >= i
  BY DEF NotLost
<1>1. i \in Holders(sessions_, id)' /\ i >= i
  BY ServiceAssumption DEF Holders, Sessions!Slot, Sessions!SessionAssumption
<1>2. QED
  BY <1>1

LEMMA TakeIdStep ==
    ASSUME CInv, WritersLocked, Observe, NEW t \in Thread, TakeId(t)
    PROVE  CInv'
<1>1. /\ request[t].op = "createSession" /\ ~At(t, "idle") /\ ~At(t, "activate")
      /\ pc[t] = "start"
  BY DEF TakeId, Calls, At
<1>2. lock = t /\ Clean
  BY <1>1, WriterHolds DEF Progress, At
<1>3. /\ isInitialized_ = TRUE /\ smInitialized_ = TRUE
      /\ sessions_ = committed.sessions /\ nextSessionId_ = committed.nextId
  BY <1>2 DEF CInv, SharedTypes, Clean, SessionsAre
<1>4. UNCHANGED <<request, info, key, count>> /\ uses' = uses
  BY DEF TakeId
<1>5. Sessions!FreeSlots = Free(committed.sessions)
  BY <1>3 DEF Sessions!FreeSlots, Sessions!ActiveSlots, Free
<1>6. CASE \E status \in Refusal :
             createSession(status, NotWritten) /\ Finish(t, status)
             /\ UNCHANGED cursor
  <2>1. PICK status \in Refusal :
             createSession(status, NotWritten) /\ Finish(t, status)
             /\ UNCHANGED cursor
    BY <1>6
  <2>2. status # "OK" /\ status \in StatusCode
    BY DEF Refusal
  <2>3. UNCHANGED <<hsmVars, uses>>
    BY <1>2, <1>4, <2>1, <2>2, CreateEffect, CleanTypes
       DEF FacadeSame, SessionsSame, KeystoreSame, hsmVars
  <2>4. Reason(t, "createSession", status)
    BY <1>3, <1>5, <2>1, <2>2
       DEF createSession, RefusedWhileDown, Sessions!createSession, Reason, Fails,
           Sessions!FreeSlots
  <2>5. /\ Moves(t, "return") /\ LocalTypes' /\ pc'[t] = "return"
        /\ result'[t] = status
    BY <1>4, <2>1, <2>2, FinishMoves DEF locals
  <2>6. QED
    BY <1>1, <1>2, <2>3, <2>4, <2>5, RefusalStep
<1>7. CASE \E i \in Sessions!Slot :
            /\ Sessions!First(i, Sessions!FreeSlots)
            /\ WriteSession(i, [sessions_[i] EXCEPT !.id = nextSessionId_])
            /\ nextSessionId_' = nextSessionId_ + 1
            /\ cursor' = [cursor EXCEPT ![t] = i]
            /\ Goto(t, "activate")
  <2>1. PICK i \in Sessions!Slot :
            /\ Sessions!First(i, Sessions!FreeSlots)
            /\ WriteSession(i, [sessions_[i] EXCEPT !.id = nextSessionId_])
            /\ nextSessionId_' = nextSessionId_ + 1
            /\ cursor' = [cursor EXCEPT ![t] = i]
            /\ Goto(t, "activate")
    BY <1>7
  <2>2. "activate" \in Stage /\ request[t].op \in Doing("activate")
    BY <1>1 DEF Stage, Doing
  <2>3. /\ Moves(t, "activate") /\ LocalTypes' /\ pc'[t] = "activate"
        /\ cursor'[t] = i /\ request' = request /\ committed' = committed
    BY <1>4, <2>1, <2>2, CursorMoves
  <2>4. Sessions!First(i, Free(committed.sessions)) /\ ~sessions_[i].isActive
    BY <1>5, <2>1 DEF Sessions!First, Sessions!FreeSlots, Sessions!ActiveSlots
  <2>5. PICK x : x = [id |-> committed.nextId, isActive |-> FALSE]
    OBVIOUS
  <2>6. sessions_[i] \in SessionRecord /\ committed.nextId \in Sessions!IssuedId
    BY DEF CInv, SharedTypes
  <2>7. [sessions_[i] EXCEPT !.id = nextSessionId_] = x
    <3>1. PICK old : old = sessions_[i]
      OBVIOUS
    <3>2. old.isActive = FALSE /\ old = [id |-> old.id, isActive |-> old.isActive]
      BY <2>4, <2>6, <3>1 DEF SessionRecord
    <3>3. [[id |-> old.id, isActive |-> old.isActive] EXCEPT !.id = nextSessionId_]
            = [id |-> nextSessionId_, isActive |-> old.isActive]
      BY SessionFields
    <3>4. [old EXCEPT !.id = nextSessionId_]
            = [id |-> nextSessionId_, isActive |-> old.isActive]
      BY <3>2, <3>3
    <3>5. [id |-> nextSessionId_, isActive |-> old.isActive] = x
      BY <1>3, <2>5, <3>2
    <3>6. QED
      BY <3>1, <3>4, <3>5
  <2>8. x \in SessionRecord /\ nextSessionId_' \in Sessions!SessionId
    BY <1>3, <2>1, <2>5, <2>6, ServiceAssumption
       DEF SessionRecord, Sessions!SessionId, Sessions!IssuedId,
           Sessions!SessionAssumption
  <2>9. WriteSession(i, x)
    BY <2>1, <2>7
  <2>10. /\ SharedTypes' /\ sessions_' = [sessions_ EXCEPT ![i] = x]
         /\ \A j \in Sessions!Slot :
              sessions_'[j] = IF j = i THEN x ELSE sessions_[j]
         /\ keySlots_' = keySlots_ /\ AllCounted'
    BY <1>2, <1>4, <2>3, <2>8, <2>9, SessionWritten DEF Clean, SessionsAre
  <2>11. Creating(i, FALSE)'
    BY <1>2, <1>3, <2>1, <2>3, <2>4, <2>5, <2>10
       DEF Creating, SessionsAre, With, Clean, Sessions!First, Free
  <2>12. Progress(t)'
    BY <2>3, <2>11 DEF Progress, At
  <2>13. NotLost
    BY <2>4, <2>10, OpenStayNotLost
  <2>14. QED
    BY <1>1, <1>2, <2>2, <2>3, <2>10, <2>12, <2>13, HolderStep
<1>8. QED
  BY <1>6, <1>7 DEF TakeId

LEMMA ActivateStep ==
    ASSUME CInv, WritersLocked, Observe, NEW t \in Thread, Activate(t)
    PROVE  CInv'
<1>1. /\ request[t].op = "createSession" /\ ~At(t, "idle") /\ pc[t] = "activate"
  BY DEF Activate, At, CInv, InCall, Doing
<1>2. lock = t /\ Creating(cursor[t], FALSE)
  BY <1>1, WriterHolds DEF Progress, At
<1>3. PICK i : i = cursor[t]
  OBVIOUS
<1>4. i \in Sessions!Slot /\ sessions_[i] \in SessionRecord
  BY <1>3 DEF CInv, LocalTypes, SharedTypes
<1>5. PICK w, x : w = [id |-> committed.nextId, isActive |-> FALSE]
               /\ x = [id |-> committed.nextId, isActive |-> TRUE]
  OBVIOUS
<1>6. /\ committed.sessions \in [Sessions!Slot -> SessionRecord]
      /\ committed.nextId \in Sessions!IssuedId
  BY DEF CInv, SharedTypes
<1>7. /\ sessions_ = [committed.sessions EXCEPT ![i] = w]
      /\ nextSessionId_ = committed.nextId + 1
      /\ keySlots_ = committed.slots /\ AllCounted
      /\ Sessions!First(i, Free(committed.sessions))
  BY <1>2, <1>3, <1>5 DEF Creating, SessionsAre, With
<1>8. sessions_[i] = w /\ [w EXCEPT !.isActive = TRUE] = x
  <2>1. sessions_[i] = w
    BY <1>4, <1>6, <1>7
  <2>2. /\ [[id |-> w.id, isActive |-> w.isActive] EXCEPT !.isActive = x.isActive]
             = [id |-> w.id, isActive |-> x.isActive]
    BY SessionFields
  <2>3. /\ w = [id |-> w.id, isActive |-> w.isActive]
        /\ x = [id |-> w.id, isActive |-> x.isActive] /\ x.isActive = TRUE
    BY <1>5
  <2>4. QED
    BY <2>1, <2>2, <2>3
<1>9. WriteSession(i, x) /\ UNCHANGED <<nextSessionId_, locals, uses>>
  BY <1>3, <1>8 DEF Activate
<1>10. "restartIds" \in Stage /\ request[t].op \in Doing("restartIds")
  BY <1>1 DEF Stage, Doing
<1>11. /\ Moves(t, "restartIds") /\ LocalTypes' /\ pc'[t] = "restartIds"
       /\ request' = request /\ committed' = committed /\ cursor' = cursor
  BY <1>9, <1>10, GotoMoves DEF Activate, locals
<1>12. x \in SessionRecord /\ nextSessionId_' \in Sessions!SessionId
  BY <1>4, <1>5, <1>8, <1>9 DEF SessionRecord, CInv, SharedTypes
<1>13. /\ SharedTypes' /\ sessions_' = [sessions_ EXCEPT ![i] = x]
       /\ \A j \in Sessions!Slot :
              sessions_'[j] = IF j = i THEN x ELSE sessions_[j]
       /\ keySlots_' = keySlots_ /\ AllCounted'
  BY <1>4, <1>7, <1>9, <1>11, <1>12, SessionWritten
<1>14. sessions_' = [committed.sessions EXCEPT ![i] = x]
  BY <1>4, <1>6, <1>7, <1>13
<1>15. Creating(i, TRUE)'
  BY <1>5, <1>7, <1>9, <1>11, <1>13, <1>14
     DEF Creating, SessionsAre, With, Sessions!First, Free
<1>16. Progress(t)'
  BY <1>3, <1>11, <1>15 DEF Progress, At
<1>17. ~sessions_[i].isActive
  BY <1>5, <1>8
<1>18. NotLost
  BY <1>13, <1>17, OpenStayNotLost
<1>19. /\ sessions_'[cursor[t]].id = sessions_[cursor[t]].id
       /\ sessions_'[cursor[t]].isActive
  BY <1>3, <1>4, <1>5, <1>8, <1>13
<1>20. request[t].op # "isSessionValid"
  BY <1>1
<1>21. QED
  BY <1>1, <1>2, <1>10, <1>11, <1>13, <1>16, <1>18, <1>19, <1>20, HolderStep

LEMMA RestartIdsStep ==
    ASSUME CInv, WritersLocked, Observe, NEW t \in Thread, RestartIds(t)
    PROVE  CInv'
<1>1. /\ request[t].op = "createSession" /\ ~At(t, "idle") /\ ~At(t, "activate")
      /\ pc[t] = "restartIds" /\ request[t].op # "isSessionValid"
  BY DEF RestartIds, At, CInv, InCall, Doing
<1>2. lock = t /\ Creating(cursor[t], TRUE)
  BY <1>1, WriterHolds DEF Progress, At
<1>3. PICK i : i = cursor[t]
  OBVIOUS
<1>4. i \in Sessions!Slot
  BY <1>3 DEF CInv, LocalTypes
<1>5. PICK x : x = [id |-> committed.nextId, isActive |-> TRUE]
  OBVIOUS
<1>6. /\ committed.sessions \in [Sessions!Slot -> SessionRecord]
      /\ committed.nextId \in Sessions!IssuedId
  BY DEF CInv, SharedTypes
<1>7. /\ sessions_ = [committed.sessions EXCEPT ![i] = x]
      /\ nextSessionId_ = committed.nextId + 1
      /\ keySlots_ = committed.slots /\ AllCounted
      /\ Sessions!First(i, Free(committed.sessions))
  BY <1>2, <1>3, <1>5 DEF Creating, SessionsAre, With
<1>8. nextSessionId_' = Sessions!Successor(committed.nextId)
  BY <1>7 DEF RestartIds, Sessions!Successor
<1>9. nextSessionId_' \in Sessions!IssuedId
  BY <1>6, <1>8, SuccessorType
<1>10. nextSessionId_' \in Sessions!SessionId
  BY <1>9, ServiceAssumption
     DEF Sessions!SessionId, Sessions!IssuedId, Sessions!SessionAssumption
<1>11. /\ sessions_' = sessions_ /\ keySlots_' = keySlots_ /\ uses' = uses
       /\ UNCHANGED locals
  BY DEF RestartIds, keystoreVars
<1>12. "OK" \in StatusCode /\ Finish(t, "OK")
  BY DEF RestartIds, StatusCode
<1>13. /\ Moves(t, "return") /\ LocalTypes' /\ pc'[t] = "return"
       /\ result'[t] = "OK" /\ request' = request /\ committed' = committed
  BY <1>11, <1>12, FinishMoves
<1>14. "return" \in Stage /\ request[t].op \in Doing("return")
  BY <1>1, RequestFields DEF Stage, Doing, CInv, InCall
<1>15. SharedTypes' /\ NotLost
  BY <1>10, <1>11, <1>13, SameTableNotLost
     DEF SharedTypes, CInv, RestartIds, keystoreVars
<1>16. AllCounted'
  BY <1>7, <1>11 DEF AllCounted, CountRight
<1>17. Tidy(sessions_)'
  <2>1. x.isActive = TRUE /\ x.id # kInvalidSessionId
    BY <1>5, <1>6, ServiceAssumption
       DEF Sessions!IssuedId, Sessions!SessionAssumption
  <2>2. \A j \in Sessions!Slot : \/ sessions_'[j] = x
                                 \/ sessions_'[j] = committed.sessions[j]
    BY <1>4, <1>6, <1>7, <1>11
  <2>3. QED
    BY <2>1, <2>2 DEF CInv, Tidy
<1>18. Done(t, request[t].op)'
  BY <1>1, <1>4, <1>5, <1>7, <1>8, <1>11, <1>13, <1>16
     DEF Done, SessionsAre, With, Free, Sessions!First, Sessions!Successor
<1>19. Progress(t)'
  BY <1>13, <1>16, <1>17, <1>18 DEF Progress, At, Finished
<1>20. QED
  BY <1>1, <1>2, <1>13, <1>14, <1>15, <1>19, HolderStep
\* The flag is reset before the id: a session that is open in two slots would
\* be found in the later one from then on.
LEMMA DeactivateStep ==
    ASSUME CInv, WritersLocked, Observe, NEW t \in Thread, Deactivate(t)
    PROVE  CInv'
<1>1. /\ request[t].op = "closeSession" /\ ~At(t, "idle") /\ ~At(t, "activate")
      /\ pc[t] = "start" /\ request[t].op # "isSessionValid"
  BY DEF Deactivate, Calls, At
<1>2. lock = t /\ Clean
  BY <1>1, WriterHolds DEF Progress, At
<1>3. /\ isInitialized_ = TRUE /\ smInitialized_ = TRUE
      /\ sessions_ = committed.sessions /\ nextSessionId_ = committed.nextId
  BY <1>2 DEF CInv, SharedTypes, Clean, SessionsAre
<1>4. UNCHANGED <<request, info, key, count>> /\ uses' = uses
  BY DEF Deactivate
<1>5. PICK id : id = request[t].session
  OBVIOUS
<1>6. {j \in Sessions!Slot : Sessions!Holds(j, id)} = Holders(committed.sessions, id)
  BY <1>3 DEF Sessions!Holds, Holders
<1>7. CASE \E status \in Refusal :
             closeSession(request[t].session, status) /\ Finish(t, status)
             /\ UNCHANGED cursor
  <2>1. PICK status \in Refusal :
             closeSession(request[t].session, status) /\ Finish(t, status)
             /\ UNCHANGED cursor
    BY <1>7
  <2>2. status # "OK" /\ status \in StatusCode
    BY DEF Refusal
  <2>3. UNCHANGED <<hsmVars, uses>>
    BY <1>2, <1>4, <2>1, <2>2, CloseEffect, CleanTypes
       DEF FacadeSame, SessionsSame, KeystoreSame, hsmVars
  <2>4. Reason(t, "closeSession", status)
    <3>1. Admitted(t) => request[t].session \in Sessions!LiveIds
      BY <1>3 DEF Admitted, IsLive, Sessions!LiveIds, Sessions!ActiveSlots
    <3>2. QED
      BY <1>3, <2>1, <2>2, <3>1
         DEF closeSession, RefusedWhileDown, CallSessions, Sessions!closeSession,
             Reason, Fails
  <2>5. /\ Moves(t, "return") /\ LocalTypes' /\ pc'[t] = "return"
        /\ result'[t] = status
    BY <1>4, <2>1, <2>2, FinishMoves DEF locals
  <2>6. QED
    BY <1>1, <1>2, <2>3, <2>4, <2>5, RefusalStep
<1>8. CASE \E i \in Sessions!Slot :
            /\ Sessions!First(i, {j \in Sessions!Slot :
                                   Sessions!Holds(j, request[t].session)})
            /\ WriteSession(i, [sessions_[i] EXCEPT !.isActive = FALSE])
            /\ UNCHANGED nextSessionId_
            /\ cursor' = [cursor EXCEPT ![t] = i]
            /\ Goto(t, "forgetId")
  <2>1. PICK i \in Sessions!Slot :
            /\ Sessions!First(i, {j \in Sessions!Slot :
                                   Sessions!Holds(j, request[t].session)})
            /\ WriteSession(i, [sessions_[i] EXCEPT !.isActive = FALSE])
            /\ UNCHANGED nextSessionId_
            /\ cursor' = [cursor EXCEPT ![t] = i]
            /\ Goto(t, "forgetId")
    BY <1>8
  <2>2. "forgetId" \in Stage /\ request[t].op \in Doing("forgetId")
    BY <1>1 DEF Stage, Doing
  <2>3. /\ Moves(t, "forgetId") /\ LocalTypes' /\ pc'[t] = "forgetId"
        /\ cursor'[t] = i /\ request' = request /\ committed' = committed
    BY <1>4, <2>1, <2>2, CursorMoves
  <2>4. /\ Sessions!First(i, Holders(committed.sessions, id))
        /\ sessions_[i].id = id /\ sessions_[i].isActive
    BY <1>3, <1>5, <1>6, <2>1 DEF Sessions!First, Holders
  <2>5. PICK x : x = [id |-> id, isActive |-> FALSE]
    OBVIOUS
  <2>6. sessions_[i] \in SessionRecord
    BY DEF CInv, SharedTypes
  <2>7. [sessions_[i] EXCEPT !.isActive = FALSE] = x
    <3>1. sessions_[i] = [id |-> id, isActive |-> sessions_[i].isActive]
      BY <2>4, <2>6 DEF SessionRecord
    <3>2. [[id |-> id, isActive |-> sessions_[i].isActive] EXCEPT
              !.isActive = x.isActive] = [id |-> id, isActive |-> x.isActive]
      BY SessionFields
    <3>3. x.isActive = FALSE /\ x = [id |-> id, isActive |-> x.isActive]
      BY <2>5
    <3>4. QED
      BY <3>1, <3>2, <3>3
  <2>8. x \in SessionRecord /\ nextSessionId_' \in Sessions!SessionId
    BY <2>1, <2>4, <2>5, <2>6 DEF SessionRecord, CInv, SharedTypes
  <2>9. WriteSession(i, x)
    BY <2>1, <2>7
  <2>10. /\ SharedTypes' /\ sessions_' = [sessions_ EXCEPT ![i] = x]
         /\ \A j \in Sessions!Slot :
              sessions_'[j] = IF j = i THEN x ELSE sessions_[j]
         /\ keySlots_' = keySlots_ /\ AllCounted'
    BY <1>2, <1>4, <2>3, <2>8, <2>9, SessionWritten DEF Clean, SessionsAre
  <2>11. Closing(t, i, x)'
    BY <1>2, <1>3, <1>5, <2>1, <2>3, <2>4, <2>10
       DEF Closing, SessionsAre, With, Clean, Sessions!First, Holders
  <2>12. Progress(t)'
    BY <1>5, <2>3, <2>5, <2>11 DEF Progress, At
  <2>13. NotLost
    <3>1. SUFFICES ASSUME NEW other, NEW h \in Holders(sessions_, other),
                          IsLive(other, sessions_)'
                   PROVE  \E k \in Holders(sessions_, other)' : k >= h
      BY DEF NotLost
    <3>2. CASE h # i
      <4>1. h \in Holders(sessions_, other)' /\ h >= h
        BY <2>10, <3>2, ServiceAssumption
           DEF Holders, Sessions!Slot, Sessions!SessionAssumption
      <4>2. QED
        BY <4>1
    <3>3. CASE h = i
      <4>1. other = id
        BY <2>4, <3>3 DEF Holders
      <4>2. PICK k \in Sessions!Slot : sessions_'[k].id = id /\ sessions_'[k].isActive
        BY <3>1, <4>1 DEF IsLive
      <4>3. k # i
        BY <2>5, <2>10, <4>2
      <4>4. k \in Holders(committed.sessions, id)
        BY <1>3, <2>10, <4>2, <4>3 DEF Holders
      <4>5. i <= k
        BY <2>4, <4>4 DEF Sessions!First
      <4>6. k >= h /\ k \in Holders(sessions_, other)'
        BY <3>3, <4>1, <4>2, <4>5, ServiceAssumption
           DEF Holders, Sessions!Slot, Sessions!SessionAssumption
      <4>7. QED
        BY <4>6
    <3>4. QED
      BY <3>2, <3>3
  <2>14. QED
    BY <1>1, <1>2, <2>2, <2>3, <2>10, <2>12, <2>13, HolderStep
<1>9. QED
  BY <1>7, <1>8 DEF Deactivate

LEMMA ForgetIdStep ==
    ASSUME CInv, WritersLocked, Observe, NEW t \in Thread, ForgetId(t)
    PROVE  CInv'
<1>1. /\ request[t].op = "closeSession" /\ ~At(t, "idle") /\ ~At(t, "activate")
      /\ pc[t] = "forgetId" /\ request[t].op # "isSessionValid"
  BY DEF ForgetId, At, CInv, InCall, Doing
<1>2. /\ lock = t
      /\ Closing(t, cursor[t], [id |-> request[t].session, isActive |-> FALSE])
  BY <1>1, WriterHolds DEF Progress, At
<1>3. PICK i, w, x : /\ i = cursor[t] /\ x = Sessions!NoSession
                     /\ w = [id |-> request[t].session, isActive |-> FALSE]
  OBVIOUS
<1>4. i \in Sessions!Slot
  BY <1>3 DEF CInv, LocalTypes
<1>5. /\ committed.sessions \in [Sessions!Slot -> SessionRecord]
      /\ committed.nextId \in Sessions!IssuedId
  BY DEF CInv, SharedTypes
<1>6. /\ sessions_ = [committed.sessions EXCEPT ![i] = w]
      /\ nextSessionId_ = committed.nextId
      /\ keySlots_ = committed.slots /\ AllCounted
      /\ Sessions!First(i, Holders(committed.sessions, request[t].session))
  BY <1>2, <1>3 DEF Closing, SessionsAre, With
<1>7. [sessions_[i] EXCEPT !.id = kInvalidSessionId] = x
  <2>1. sessions_[i] = w
    BY <1>4, <1>5, <1>6
  <2>2. w = [id |-> request[t].session, isActive |-> x.isActive]
    BY <1>3 DEF Sessions!NoSession
  <2>3. [[id |-> request[t].session, isActive |-> x.isActive] EXCEPT
            !.id = kInvalidSessionId] = [id |-> kInvalidSessionId,
                                         isActive |-> x.isActive]
    BY SessionFields
  <2>4. x = [id |-> kInvalidSessionId, isActive |-> x.isActive]
    BY <1>3 DEF Sessions!NoSession
  <2>5. QED
    BY <2>1, <2>2, <2>3, <2>4
<1>8. WriteSession(i, x) /\ UNCHANGED <<nextSessionId_, locals, uses>>
  BY <1>3, <1>7 DEF ForgetId
<1>9. "OK" \in StatusCode /\ Finish(t, "OK")
  BY DEF ForgetId, StatusCode
<1>10. /\ Moves(t, "return") /\ LocalTypes' /\ pc'[t] = "return"
       /\ result'[t] = "OK" /\ request' = request /\ committed' = committed
  BY <1>8, <1>9, FinishMoves
<1>11. "return" \in Stage /\ request[t].op \in Doing("return")
  BY <1>1, RequestFields DEF Stage, Doing, CInv, InCall
<1>12. x \in SessionRecord /\ nextSessionId_' \in Sessions!SessionId
  BY <1>3, <1>8, NoSessionType DEF CInv, SharedTypes
<1>13. /\ SharedTypes' /\ sessions_' = [sessions_ EXCEPT ![i] = x]
       /\ \A j \in Sessions!Slot :
              sessions_'[j] = IF j = i THEN x ELSE sessions_[j]
       /\ keySlots_' = keySlots_ /\ AllCounted'
  BY <1>4, <1>6, <1>8, <1>10, <1>12, SessionWritten
<1>14. sessions_' = [committed.sessions EXCEPT ![i] = x]
  BY <1>4, <1>5, <1>6, <1>13
<1>15. Tidy(sessions_)'
  BY <1>3, <1>4, <1>5, <1>14 DEF CInv, Tidy, Sessions!NoSession
<1>16. ~sessions_[i].isActive
  BY <1>3, <1>4, <1>5, <1>6
<1>17. NotLost
  BY <1>13, <1>16, OpenStayNotLost
<1>18. Closing(t, i, x)'
  BY <1>6, <1>8, <1>10, <1>13, <1>14
     DEF Closing, SessionsAre, With, Sessions!First, Holders
<1>19. Done(t, request[t].op)'
  BY <1>1, <1>3, <1>4, <1>10, <1>18 DEF Done, Sessions!NoSession
<1>20. Progress(t)'
  BY <1>10, <1>13, <1>15, <1>19 DEF Progress, At, Finished
<1>21. QED
  BY <1>1, <1>2, <1>10, <1>11, <1>13, <1>17, <1>20, HolderStep

-----------------------------------------------------------------------------
(* The steps of isSessionValid() and getKeySlotInfo(), with the mutex or        *)
(* without.                                                                 *)

\* A step that only reads.
LEMMA ReadOnlyStep ==
    ASSUME CInv, Observe, NEW t \in Thread, ~At(t, "idle"),
           request[t].op \in {"isSessionValid", "getKeySlotInfo"},
           NEW step \in Stage, request[t].op \in Doing(step),
           Moves(t, step), LocalTypes', UNCHANGED <<hsmVars, uses>>,
           \A u \in Thread \ {t} : /\ info'[u] = info[u] /\ key'[u] = key[u]
                                   /\ count'[u] = count[u],
           lock = t => Progress(t)',
           request[t].op = "isSessionValid" => Tracked(t)'
    PROVE  CInv'
<1>1. \A u \in Thread : pc'[u] = IF u = t THEN step ELSE pc[u]
  BY DEF Moves, CInv, LocalTypes
<1>2. request' = request /\ lock' = lock /\ committed' = committed
  BY DEF Moves
<1>3. /\ sessions_' = sessions_ /\ nextSessionId_' = nextSessionId_
      /\ keySlots_' = keySlots_ /\ uses' = uses
  BY DEF hsmVars, sessionVars, keystoreVars
<1>4. SharedTypes'
  BY <1>2 DEF CInv, SharedTypes, hsmVars, sessionVars, keystoreVars
<1>5. Exclusive' /\ \A u \in Thread : Here(u)'
  BY MoveKeeps
<1>6. HolderInv'
  <2>1. CASE lock = t
    BY <1>2, <2>1, HolderMoves
  <2>2. CASE lock # t
    BY <1>1, <1>2, <1>3, <2>2, BystanderKeeps DEF Moves
  <2>3. QED
    BY <2>1, <2>2
<1>7. ASSUME NEW u \in Thread, request'[u].op = "isSessionValid" PROVE Tracked(u)'
  <2>1. NotLost
    BY <1>3, SameTableNotLost
  <2>2. ~At(t, "activate")
    BY DEF CInv, InCall, Doing, At
  <2>3. ActivationGoesOn
    BY <1>1, <1>2, <1>3, <2>2 DEF ActivationGoesOn, Moves, At
  <2>4. QED
    BY <1>1, <1>2, <1>7, <2>1, <2>3, OthersTracked DEF Moves
<1>8. ReaderInv'
  BY <1>7 DEF ReaderInv
<1>9. Tidy(committed.sessions)'
  BY <1>2 DEF CInv, Tidy
<1>10. QED
  BY <1>4, <1>5, <1>6, <1>8, <1>9 DEF CInv, Here

LEMMA GetKeySlotInfoStep ==
    ASSUME CInv, WritersLocked, Observe, NEW t \in Thread, GetKeySlotInfo(t)
    PROVE  CInv'
<1>1. /\ request[t].op = "getKeySlotInfo" /\ ~At(t, "idle") /\ pc[t] = "start"
  BY DEF GetKeySlotInfo, Calls, At
<1>2. PICK status \in StatusCode :
        getKeySlotInfo(request[t].slot, status) /\ Finish(t, status)
  BY DEF GetKeySlotInfo
<1>3. UNCHANGED <<hsmVars, uses>> /\ UNCHANGED <<request, key, count, cursor>>
  BY <1>2, InfoEffect
     DEF GetKeySlotInfo, FacadeSame, SessionsSame, KeystoreSame, hsmVars
<1>4. request[t].slot \in Keystore!KeySlot
  BY <1>1, OwnSlot
<1>5. Mine(t).info \in Keystore!InfoType
  BY <1>4 DEF CInv, SharedTypes, Mine, SlotRecord
<1>6. /\ info'[t] = Mine(t).info /\ info' \in [Thread -> Keystore!InfoType]
      /\ \A u \in Thread \ {t} : info'[u] = info[u]
  BY <1>5 DEF GetKeySlotInfo, CInv, LocalTypes
<1>7. /\ pc' \in [Thread -> Stage \cup {"idle", "start"}]
      /\ result' \in [Thread -> StatusCode]
      /\ pc'[t] = "return" /\ result'[t] = status
      /\ \A u \in Thread \ {t} : result'[u] = result[u]
  BY <1>2 DEF Finish, CInv, LocalTypes, Stage
<1>8. Moves(t, "return") /\ LocalTypes' /\ committed' = committed
  BY <1>2, <1>3, <1>6, <1>7 DEF Finish, Moves, CInv, LocalTypes
<1>9. "return" \in Stage /\ request[t].op \in Doing("return")
  BY <1>1, RequestFields DEF Stage, Doing, CInv, InCall
<1>10. status = "OK" \/ Fails("keystore", status)
  BY <1>2, <1>4 DEF getKeySlotInfo, RefusedWhileDown, CallKeystore, CInv, SharedTypes,
                    Keystore!getSlotInfo, Keystore!SlotInfoStatus,
                    Keystore!isValidSlotId
<1>11. ASSUME lock = t PROVE Progress(t)'
  <2>1. Clean
    BY <1>1, <1>11 DEF CInv, HolderInv, Progress, At
  <2>2. Clean'
    BY <1>3, <1>8, <2>1 DEF Clean, SessionsAre, AllCounted, CountRight, hsmVars,
                            sessionVars, keystoreVars
  <2>3. info'[t] = Old(t)'.info
    BY <1>3, <1>6, <1>8, <2>1, OldSame DEF Mine, Old, Clean, SessionsAre
  <2>4. Tidy(sessions_)' /\ AllCounted'
    BY <1>3, <1>8, <2>1, <2>2
       DEF CInv, Tidy, Clean, SessionsAre, hsmVars, sessionVars
  <2>5. Finished(t)'
    BY <1>1, <1>3, <1>7, <1>10, <2>2, <2>3 DEF Finished, Fails
  <2>6. QED
    BY <1>7, <2>4, <2>5 DEF Progress, At
<1>12. QED
  BY <1>1, <1>3, <1>6, <1>8, <1>9, <1>11, ReadOnlyStep

\* A slot that is not active and still has an id, or has one already, is being
\* closed or opened by the holder of the mutex.
LEMMA UntidySlot ==
    ASSUME CInv, NEW c \in Sessions!Slot, ~sessions_[c].isActive,
           sessions_[c].id # kInvalidSessionId
    PROVE  \E u \in Thread : /\ lock = u /\ cursor[u] = c
                             /\ \/ At(u, "activate")
                                \/ IsLive(sessions_[c].id, committed.sessions)
<1>1. /\ committed.sessions \in [Sessions!Slot -> SessionRecord]
      /\ Tidy(committed.sessions)
  BY DEF CInv, SharedTypes
<1>2. sessions_ # committed.sessions /\ ~Tidy(sessions_)
  BY <1>1 DEF Tidy
<1>3. ~Clean /\ \A s, slot : ~SlotIs(s, slot)
  BY <1>2 DEF Clean, SessionsAre, SlotIs
<1>4. PICK u \in Thread : lock = u /\ Progress(u) /\ ~At(u, "idle")
  BY <1>3 DEF CInv, HolderInv, Exclusive, LocalTypes
<1>5. pc[u] \in {"activate", "restartIds", "forgetId"}
  <2>1. pc[u] \notin {"start", "readId", "readActive", "permissions", "fetch"}
    BY <1>3, <1>4 DEF Progress, At
  <2>2. pc[u] \notin {"writeKey", "occupy", "describe", "resetCount", "clearKey",
                      "clearInfo"}
    BY <1>3, <1>4 DEF Progress, At, Importing, Deleting
  <2>3. pc[u] \notin {"readCount", "writeCount", "apply", "return"}
    BY <1>2, <1>3, <1>4 DEF Progress, At, Using
  <2>4. QED
    BY <1>4, <2>1, <2>2, <2>3 DEF CInv, LocalTypes, Stage, At
<1>6. PICK i : i = cursor[u]
  OBVIOUS
<1>7. i \in Sessions!Slot
  BY <1>6 DEF CInv, LocalTypes
<1>8. PICK x : sessions_ = [committed.sessions EXCEPT ![i] = x]
  BY <1>4, <1>5, <1>6 DEF Progress, At, Creating, Closing, SessionsAre, With
<1>9. c = i
  BY <1>1, <1>7, <1>8 DEF Tidy
<1>10. CASE At(u, "activate")
  BY <1>4, <1>6, <1>9, <1>10
<1>11. CASE At(u, "restartIds")
  <2>1. sessions_[i] = [id |-> committed.nextId, isActive |-> TRUE]
    BY <1>1, <1>4, <1>6, <1>7, <1>11 DEF Progress, Creating, SessionsAre, With
  <2>2. QED
    BY <1>9, <2>1
<1>12. CASE At(u, "forgetId")
  <2>1. PICK id : id = request[u].session
    OBVIOUS
  <2>2. /\ sessions_ = [committed.sessions EXCEPT ![i] = [id |-> id, isActive |-> FALSE]]
        /\ Sessions!First(i, Holders(committed.sessions, id))
    BY <1>4, <1>6, <1>12, <2>1 DEF Progress, Closing, SessionsAre, With
  <2>3. sessions_[c].id = id
    BY <1>1, <1>7, <1>9, <2>2
  <2>4. IsLive(id, committed.sessions)
    BY <2>2 DEF Sessions!First, Holders, IsLive
  <2>5. QED
    BY <1>4, <1>6, <1>9, <2>3, <2>4
<1>13. QED
  BY <1>5, <1>10, <1>11, <1>12 DEF At
\* Where the loop of isSessionValid() is, and what its thread knows there.
LEMMA InLoop ==
    ASSUME CInv, NEW t \in Thread, request[t].op = "isSessionValid",
           pc[t] \in {"start", "readId", "readActive"}
    PROVE  /\ ~At(t, "idle") /\ cursor[t] \in Sessions!Slot
           /\ request[t].session \in Sessions!SessionId /\ Tracked(t)
           /\ lock = t => Clean /\ NotBefore(t)
<1>1. ~At(t, "idle") /\ cursor[t] \in Sessions!Slot /\ Tracked(t)
  BY DEF At, CInv, LocalTypes, ReaderInv
<1>2. request[t].session \in Sessions!SessionId
  BY <1>1, RequestFields DEF CInv, InCall
<1>3. ASSUME lock = t PROVE Clean /\ NotBefore(t)
  <2>1. Progress(t)
    BY <1>3 DEF CInv, HolderInv
  <2>2. CASE pc[t] = "start"
    <3>1. cursor[t] = 0
      BY <2>2 DEF CInv
    <3>2. NotBefore(t)
      BY <3>1, ServiceAssumption
         DEF NotBefore, Sessions!Slot, Sessions!SessionAssumption
    <3>3. QED
      BY <2>1, <2>2, <3>2 DEF Progress, At
  <2>3. CASE pc[t] \in {"readId", "readActive"}
    BY <2>1, <2>3 DEF Progress, At
  <2>4. QED
    BY <2>2, <2>3
<1>4. QED
  BY <1>1, <1>2, <1>3

LEMMA CleanStays ==
    ASSUME Clean, UNCHANGED <<hsmVars, uses>>, committed' = committed
    PROVE  Clean'
BY DEF Clean, SessionsAre, AllCounted, CountRight, hsmVars, sessionVars, keystoreVars

\* The slot at the cursor does not hold the session: the loop goes on, or it
\* ends and no slot did.
LEMMA NextSlotStep ==
    ASSUME CInv, Observe, NEW t \in Thread, request[t].op = "isSessionValid",
           pc[t] \in {"start", "readId", "readActive"},
           cursor[t] \notin Holders(sessions_, request[t].session),
           NextSlot(t), UNCHANGED <<hsmVars, request, info, key, count, uses>>
    PROVE  CInv'
<1> DEFINE id == request[t].session
           c == cursor[t]
<1>1. /\ ~At(t, "idle") /\ c \in Sessions!Slot /\ Tracked(t)
      /\ lock = t => Clean /\ NotBefore(t)
  BY InLoop
<1>2. FALSE \in answers[t] \/ \E i \in Holders(sessions_, id) : i > c
  <2>1. c \in Int /\ \A i \in Holders(sessions_, id) : i \in Int
    BY <1>1, ServiceAssumption DEF Holders, Sessions!Slot, Sessions!SessionAssumption
  <2>2. FALSE \in answers[t] \/ \E i \in Holders(sessions_, id) : i >= c
    BY <1>1 DEF Tracked
  <2>3. ASSUME NEW i \in Holders(sessions_, id), i >= c PROVE i > c
    <3>1. i # c
      OBVIOUS
    <3>2. QED
      BY <2>1, <2>3, <3>1
  <2>4. QED
    BY <2>2, <2>3
<1>3. UNCHANGED <<hsmVars, uses>> /\ sessions_' = sessions_ /\ request' = request
  BY DEF hsmVars, sessionVars
<1>4. CASE c + 1 \in Sessions!Slot
  <2>1. "readId" \in Stage /\ request[t].op \in Doing("readId")
    BY DEF Stage, Doing
  <2>2. Goto(t, "readId") /\ cursor' = [cursor EXCEPT ![t] = c + 1]
    BY <1>4 DEF NextSlot
  <2>3. /\ Moves(t, "readId") /\ LocalTypes' /\ pc'[t] = "readId"
        /\ cursor'[t] = c + 1 /\ request' = request /\ committed' = committed
    BY <1>4, <2>1, <2>2, CursorMoves
  <2>4. answers'[t] = answers[t] \cup {IsLive(id, sessions_'),
                                       IsLive(id, committed'.sessions)}
    BY <1>3, SeenNow
  <2>5. FALSE \in answers'[t] \/ \E i \in Holders(sessions_, id) : i >= c + 1
    <3>1. c \in Int /\ \A i \in Holders(sessions_, id) : i \in Int
      BY <1>1, ServiceAssumption
         DEF Holders, Sessions!Slot, Sessions!SessionAssumption
    <3>2. ASSUME NEW i \in Holders(sessions_, id), i > c PROVE i >= c + 1
      BY <3>1, <3>2
    <3>3. FALSE \in answers[t] => FALSE \in answers'[t]
      BY <2>4
    <3>4. QED
      BY <1>2, <3>2, <3>3
  <2>6. Tracked(t)'
    BY <1>3, <2>3, <2>4, <2>5 DEF Tracked, At
  <2>7. ASSUME lock = t PROVE Progress(t)'
    <3>1. Clean'
      BY <1>1, <1>3, <2>3, <2>7, CleanStays
    <3>2. NotBefore(t)'
      <4>1. \A i \in Sessions!Slot : i < c + 1 => i < c \/ i = c
        BY <1>1, ServiceAssumption DEF Sessions!Slot, Sessions!SessionAssumption
      <4>2. QED
        BY <1>1, <1>3, <2>3, <2>7, <4>1 DEF NotBefore
    <3>3. QED
      BY <2>3, <3>1, <3>2 DEF Progress, At
  <2>8. QED
    BY <1>1, <1>3, <2>1, <2>3, <2>6, <2>7, ReadOnlyStep
<1>5. CASE c + 1 \notin Sessions!Slot
  <2>1. PICK status : status = "ERR_SESSION_INVALID"
    OBVIOUS
  <2>2. status \in StatusCode /\ status # "OK"
    BY <2>1 DEF StatusCode
  <2>3. Finish(t, status) /\ UNCHANGED locals
    BY <1>5, <2>1 DEF NextSlot, locals
  <2>4. /\ Moves(t, "return") /\ LocalTypes' /\ pc'[t] = "return"
        /\ result'[t] = status /\ committed' = committed
    BY <2>2, <2>3, FinishMoves
  <2>5. "return" \in Stage /\ request[t].op \in Doing("return")
    BY <1>1, RequestFields DEF Stage, Doing, CInv, InCall
  <2>6. \A i \in Sessions!Slot : i <= c
    BY <1>1, <1>5, ServiceAssumption DEF Sessions!Slot, Sessions!SessionAssumption
  <2>7. FALSE \in answers[t]
    <3>1. \A i \in Holders(sessions_, id) : ~(i > c)
      BY <1>1, <2>6, ServiceAssumption
         DEF Holders, Sessions!Slot, Sessions!SessionAssumption
    <3>2. QED
      BY <1>2, <3>1
  <2>8. answers'[t] = answers[t] \cup {IsLive(id, sessions_'),
                                       IsLive(id, committed'.sessions)}
    BY <1>3, SeenNow
  <2>9. Tracked(t)'
    <3>1. (result'[t] = "OK") = FALSE
      BY <2>2, <2>4
    <3>2. (result'[t] = "OK") \in answers'[t]
      BY <2>7, <2>8, <3>1
    <3>3. QED
      BY <1>3, <2>4, <2>8, <3>2 DEF Tracked, At
  <2>10. ASSUME lock = t PROVE Progress(t)'
    <3>1. Clean'
      BY <1>1, <1>3, <2>4, <2>10, CleanStays
    <3>2. ~Admitted(t)
      <4>1. \A i \in Sessions!Slot : i < c \/ i = c
        BY <1>1, <2>6, ServiceAssumption
           DEF Sessions!Slot, Sessions!SessionAssumption
      <4>2. sessions_ = committed.sessions
        BY <1>1, <2>10 DEF Clean, SessionsAre
      <4>3. QED
        BY <1>1, <2>10, <4>1, <4>2 DEF Admitted, IsLive, NotBefore, Holders
    <3>3. ~Admitted(t)'
      BY <1>3, <2>4, <3>2, OldSame
    <3>4. Finished(t)'
      BY <1>3, <2>2, <2>4, <3>1, <3>3 DEF Finished
    <3>5. Tidy(sessions_)' /\ AllCounted'
      BY <2>4, <3>1 DEF CInv, Tidy, Clean, SessionsAre
    <3>6. QED
      BY <2>4, <3>4, <3>5 DEF Progress, At
  <2>11. QED
    BY <1>1, <1>3, <2>3, <2>4, <2>5, <2>9, <2>10, ReadOnlyStep DEF locals
<1>6. QED
  BY <1>4, <1>5

LEMMA ReadIdStep ==
    ASSUME CInv, WritersLocked, Observe, NEW t \in Thread, ReadId(t)
    PROVE  CInv'
<1> DEFINE id == request[t].session
           c == cursor[t]
<1>1. request[t].op = "isSessionValid" /\ pc[t] \in {"start", "readId", "readActive"}
  BY DEF ReadId, Calls, At, CInv, InCall, Doing
<1>2. /\ ~At(t, "idle") /\ c \in Sessions!Slot /\ Tracked(t)
      /\ lock = t => Clean /\ NotBefore(t)
  BY <1>1, InLoop
<1>3. UNCHANGED <<hsmVars, request, info, key, count, uses>>
  BY DEF ReadId
<1>4. CASE sessions_[c].id # id
  <2>1. NextSlot(t) /\ c \notin Holders(sessions_, id)
    BY <1>4 DEF ReadId, Holders
  <2>2. QED
    BY <1>1, <1>3, <2>1, NextSlotStep
<1>5. CASE sessions_[c].id = id
  <2>1. /\ sessions_' = sessions_ /\ UNCHANGED <<hsmVars, uses>>
        /\ cursor' = cursor /\ Goto(t, "readActive") /\ UNCHANGED locals
    BY <1>3, <1>5 DEF hsmVars, sessionVars, ReadId, locals
  <2>2. "readActive" \in Stage /\ request[t].op \in Doing("readActive")
    BY <1>1 DEF Stage, Doing
  <2>3. /\ Moves(t, "readActive") /\ LocalTypes' /\ pc'[t] = "readActive"
        /\ request' = request /\ committed' = committed
    BY <2>1, <2>2, GotoMoves
  <2>4. answers'[t] = answers[t] \cup {IsLive(id, sessions_'),
                                       IsLive(id, committed'.sessions)}
    BY <1>1, <2>3, SeenNow
  <2>5. FALSE \in answers'[t] \/ \E i \in Holders(sessions_, id) : i >= c
    BY <1>1, <1>2, <2>4 DEF Tracked
  <2>6. ASSUME id # kInvalidSessionId
        PROVE  \/ TRUE \in answers'[t]
               \/ \E u \in Thread : /\ lock = u /\ At(u, "activate")
                                    /\ cursor[u] = c /\ sessions_[c].id = id
    <3>1. CASE sessions_[c].isActive
      <4>1. IsLive(id, sessions_') = TRUE
        BY <1>2, <1>5, <2>1, <3>1 DEF IsLive
      <4>2. QED
        BY <2>4, <4>1
    <3>2. CASE ~sessions_[c].isActive
      <4>1. PICK u \in Thread : /\ lock = u /\ cursor[u] = c
                               /\ \/ At(u, "activate")
                                  \/ IsLive(id, committed.sessions)
        BY <1>2, <1>5, <2>6, <3>2, UntidySlot
      <4>2. CASE IsLive(id, committed.sessions)
        <5>1. IsLive(id, committed'.sessions) = TRUE
          BY <2>3, <4>2 DEF IsLive
        <5>2. QED
          BY <2>4, <5>1
      <4>3. QED
        BY <1>5, <4>1, <4>2
    <3>3. QED
      BY <3>1, <3>2
  <2>7. Tracked(t)'
    <3>1. ~At(t, "activate")
      BY <1>1 DEF At
    <3>2. \A u \in Thread : At(u, "activate") => pc'[u] = "activate"
      BY <2>3, <3>1 DEF Moves, At, CInv, LocalTypes
    <3>3. lock' = lock
      BY <2>3 DEF Moves
    <3>4. QED
      BY <2>1, <2>3, <2>4, <2>5, <2>6, <3>2, <3>3 DEF Tracked, At
  <2>8. ASSUME lock = t PROVE Progress(t)'
    <3>1. Clean'
      BY <1>2, <2>1, <2>3, <2>8, CleanStays
    <3>2. NotBefore(t)'
      BY <1>2, <2>1, <2>3, <2>8 DEF NotBefore
    <3>3. QED
      BY <1>5, <2>1, <2>3, <3>1, <3>2 DEF Progress, At
  <2>9. QED
    BY <1>1, <1>2, <2>1, <2>2, <2>3, <2>7, <2>8, ReadOnlyStep DEF locals
<1>6. QED
  BY <1>4, <1>5

LEMMA ReadActiveStep ==
    ASSUME CInv, WritersLocked, Observe, NEW t \in Thread, ReadActive(t)
    PROVE  CInv'
<1> DEFINE id == request[t].session
           c == cursor[t]
<1>1. /\ request[t].op = "isSessionValid" /\ pc[t] = "readActive"
      /\ pc[t] \in {"start", "readId", "readActive"}
  BY DEF ReadActive, At, CInv, InCall, Doing
<1>2. /\ ~At(t, "idle") /\ c \in Sessions!Slot /\ Tracked(t)
      /\ lock = t => Clean /\ NotBefore(t)
  BY <1>1, InLoop
<1>3. UNCHANGED <<hsmVars, request, info, key, count, uses>>
  BY DEF ReadActive
<1>4. CASE ~sessions_[c].isActive
  <2>1. NextSlot(t) /\ c \notin Holders(sessions_, id)
    BY <1>4 DEF ReadActive, Holders
  <2>2. QED
    BY <1>1, <1>3, <2>1, NextSlotStep
<1>5. CASE sessions_[c].isActive
  <2>1. /\ sessions_' = sessions_ /\ UNCHANGED <<hsmVars, uses>>
        /\ Finish(t, "OK") /\ UNCHANGED locals /\ "OK" \in StatusCode
    BY <1>3, <1>5 DEF hsmVars, sessionVars, ReadActive, locals, StatusCode
  <2>2. "return" \in Stage /\ request[t].op \in Doing("return")
    BY <1>2, RequestFields DEF Stage, Doing, CInv, InCall
  <2>3. /\ Moves(t, "return") /\ LocalTypes' /\ pc'[t] = "return"
        /\ result'[t] = "OK" /\ request' = request /\ committed' = committed
    BY <2>1, FinishMoves
  <2>4. answers'[t] = answers[t] \cup {IsLive(id, sessions_'),
                                       IsLive(id, committed'.sessions)}
    BY <1>1, <2>3, SeenNow
  <2>5. ASSUME id # kInvalidSessionId PROVE TRUE \in answers'[t]
    <3>1. CASE TRUE \in answers[t]
      BY <2>4, <3>1
    <3>2. CASE TRUE \notin answers[t]
      <4>1. sessions_[c].id = id
        BY <1>1, <1>2, <2>5, <3>2 DEF Tracked, At
      <4>2. IsLive(id, sessions_') = TRUE
        BY <1>2, <1>5, <2>1, <4>1 DEF IsLive
      <4>3. QED
        BY <2>4, <4>2
    <3>3. QED
      BY <3>1, <3>2
  <2>6. Tracked(t)'
    <3>1. (result'[t] = "OK") = TRUE
      BY <2>3
    <3>2. id # kInvalidSessionId => (result'[t] = "OK") \in answers'[t]
      BY <2>5, <3>1
    <3>3. QED
      BY <2>1, <2>3, <2>4, <3>2 DEF Tracked, At
  <2>7. ASSUME lock = t PROVE Progress(t)'
    <3>1. Clean'
      BY <1>2, <2>1, <2>3, <2>7, CleanStays
    <3>2. sessions_[c].id = id
      BY <1>1, <2>7 DEF CInv, HolderInv, Progress, At
    <3>3. Admitted(t)
      BY <1>2, <1>5, <2>7, <3>2 DEF Admitted, IsLive, Clean, SessionsAre
    <3>4. Admitted(t)'
      BY <2>3, <3>3, OldSame
    <3>5. Finished(t)'
      BY <1>1, <2>3, <3>1, <3>4 DEF Finished
    <3>6. Tidy(sessions_)' /\ AllCounted'
      BY <2>3, <3>1 DEF CInv, Tidy, Clean, SessionsAre
    <3>7. QED
      BY <2>3, <3>5, <3>6 DEF Progress, At
  <2>8. QED
    BY <1>1, <1>2, <2>1, <2>2, <2>3, <2>6, <2>7, ReadOnlyStep DEF locals
<1>6. QED
  BY <1>4, <1>5

-----------------------------------------------------------------------------
(* Threads that enter and leave.                                            *)

LEMMA EnterStep ==
    ASSUME CInv, WritersLocked, Observe, NEW t \in Thread, Enter(t)
    PROVE  CInv'
<1>1. PICK r \in Request :
        /\ At(t, "idle") /\ request' = [request EXCEPT ![t] = r]
        /\ pc' = [pc EXCEPT ![t] = "start"]
        /\ \/ Guarded(r.op) /\ lock = NoThread /\ lock' = t
           \/ ~Guarded(r.op) /\ UNCHANGED lock
        /\ UNCHANGED <<hsmVars, info, key, count, cursor, result, uses, committed>>
  BY DEF Enter
<1>2. /\ pc' \in [Thread -> Stage \cup {"idle", "start"}]
      /\ request' \in [Thread -> Request \cup {Idle}]
      /\ \A u \in Thread : /\ pc'[u] = IF u = t THEN "start" ELSE pc[u]
                           /\ request'[u] = IF u = t THEN r ELSE request[u]
  BY <1>1 DEF CInv, LocalTypes
<1>3. /\ sessions_' = sessions_ /\ nextSessionId_' = nextSessionId_
      /\ keySlots_' = keySlots_ /\ uses' = uses /\ committed' = committed
      /\ info' = info /\ key' = key /\ count' = count /\ cursor' = cursor
      /\ result' = result
  BY <1>1 DEF hsmVars, sessionVars, keystoreVars
<1>4. SharedTypes'
  BY <1>1, <1>3 DEF CInv, SharedTypes, hsmVars, sessionVars, keystoreVars
<1>5. LocalTypes'
  BY <1>1, <1>2, <1>3 DEF CInv, LocalTypes
<1>6. ASSUME NEW u \in Thread PROVE Here(u)'
  <2>1. CASE u = t
    <3>1. r.op \in Doing("start")
      BY RequestFields DEF Doing
    <3>2. cursor'[t] = 0
      BY <1>1, <1>3 DEF CInv, At
    <3>3. QED
      BY <1>2, <2>1, <3>1, <3>2 DEF Here, InCall, At
  <2>2. CASE u # t
    BY <1>2, <1>3, <2>2 DEF Here, InCall, At, CInv
  <2>3. QED
    BY <2>1, <2>2
<1>7. lock # t /\ \A u \in Thread : lock = u => u # t
  BY <1>1 DEF CInv, Exclusive
<1>8. Exclusive'
  <2>1. ASSUME NEW u \in Thread
        PROVE  lock' = u <=> (pc'[u] # "idle" /\ request'[u].op \in Locked)
    <3>1. CASE u = t
      BY <1>1, <1>2, <1>7, <3>1 DEF Guarded
    <3>2. CASE u # t
      BY <1>1, <1>2, <3>2, ThreadAssumption DEF CInv, Exclusive, At
    <3>3. QED
      BY <3>1, <3>2
  <2>2. QED
    BY <2>1 DEF Exclusive, At
<1>9. HolderInv'
  <2>1. CASE lock = NoThread /\ lock' = t
    <3>1. Clean
      BY <2>1 DEF CInv, HolderInv
    <3>2. Clean'
      BY <1>1, <3>1, CleanStays
    <3>3. Progress(t)'
      BY <1>2, <3>2 DEF Progress, At
    <3>4. QED
      BY <2>1, <3>3, ThreadAssumption DEF HolderInv
  <2>2. CASE lock' = lock
    BY <1>2, <1>3, <1>7, <2>2, BystanderKeeps
  <2>3. QED
    BY <1>1, <2>1, <2>2
<1>10. ASSUME NEW u \in Thread, request'[u].op = "isSessionValid" PROVE Tracked(u)'
  <2>1. CASE u = t
    <3>1. answers'[t] = answers[t] \cup {IsLive(r.session, sessions_'),
                                         IsLive(r.session, committed'.sessions)}
      BY <1>2, <1>10, <2>1, SeenNow
    <3>2. cursor'[t] = 0
      BY <1>1, <1>3 DEF CInv, At
    <3>3. FALSE \in answers'[t] \/ \E i \in Holders(sessions_', r.session) : i >= 0
      <4>1. CASE IsLive(r.session, sessions_')
        <5>1. PICK i \in Sessions!Slot :
                sessions_'[i].id = r.session /\ sessions_'[i].isActive
          BY <4>1 DEF IsLive
        <5>2. i \in Holders(sessions_', r.session) /\ i >= 0
          BY <5>1, ServiceAssumption
             DEF Holders, Sessions!Slot, Sessions!SessionAssumption
        <5>3. QED
          BY <5>2
      <4>2. CASE ~IsLive(r.session, sessions_')
        <5>1. IsLive(r.session, sessions_') = FALSE
          BY <4>2 DEF IsLive
        <5>2. QED
          BY <3>1, <5>1
      <4>3. QED
        BY <4>1, <4>2
    <3>4. QED
      BY <1>2, <2>1, <3>1, <3>2, <3>3 DEF Tracked, At
  <2>2. CASE u # t
    <3>1. NotLost
      BY <1>3, SameTableNotLost
    <3>2. ActivationGoesOn
      BY <1>1, <1>2, <1>3, <1>7, ThreadAssumption DEF ActivationGoesOn, At
    <3>3. QED
      BY <1>2, <1>3, <1>10, <2>2, <3>1, <3>2, OthersTracked
  <2>3. QED
    BY <2>1, <2>2
<1>11. ReaderInv' /\ Tidy(committed.sessions)'
  BY <1>3, <1>10 DEF ReaderInv, CInv, Tidy
<1>12. QED
  BY <1>4, <1>5, <1>6, <1>8, <1>9, <1>11 DEF CInv, Here

\* A call that has returned leaves a state that the next one can start from.
LEMMA FinishedTypes ==
    ASSUME CInv, NEW t \in Thread, Finished(t)
    PROVE  nextSessionId_ \in Sessions!IssuedId
<1>1. committed.nextId \in Sessions!IssuedId
  BY DEF CInv, SharedTypes
<1>2. Sessions!Successor(committed.nextId) \in Sessions!IssuedId
  BY <1>1, SuccessorType
<1>3. Clean => nextSessionId_ = committed.nextId
  BY DEF Clean, SessionsAre
<1>4. Done(t, request[t].op) => nextSessionId_ \in Sessions!IssuedId
  BY <1>1, <1>2 DEF Done, SessionsAre, Closing, Importing, Deleting, Using, SlotIs
<1>5. QED
  BY <1>1, <1>3, <1>4 DEF Finished

LEMMA LeaveStep ==
    ASSUME CInv, WritersLocked, Observe, NEW t \in Thread, Leave(t)
    PROVE  CInv'
<1>1. /\ At(t, "return") /\ pc' = [pc EXCEPT ![t] = "idle"]
      /\ request' = [request EXCEPT ![t] = Idle]
      /\ info' = [info EXCEPT ![t] = Keystore!BlankInfo]
      /\ result' = [result EXCEPT ![t] = "OK"]
      /\ cursor' = [cursor EXCEPT ![t] = 0]
      /\ UNCHANGED <<hsmVars, key, count, uses>>
  BY DEF Leave
<1>2. \/ lock = t /\ lock' = NoThread /\ committed' = shared
      \/ lock # t /\ lock' = lock /\ committed' = committed
  BY DEF Leave
<1>3. /\ pc' \in [Thread -> Stage \cup {"idle", "start"}]
      /\ request' \in [Thread -> Request \cup {Idle}]
      /\ \A u \in Thread : /\ pc'[u] = IF u = t THEN "idle" ELSE pc[u]
                           /\ request'[u] = IF u = t THEN Idle ELSE request[u]
                           /\ cursor'[u] = IF u = t THEN 0 ELSE cursor[u]
      /\ \A u \in Thread \ {t} : info'[u] = info[u] /\ result'[u] = result[u]
  BY <1>1 DEF CInv, LocalTypes
<1>4. LocalTypes'
  <2>1. Keystore!BlankInfo \in Keystore!InfoType /\ "OK" \in StatusCode
    BY BlankSlotSound DEF Keystore!BlankSlot, SlotRecord, StatusCode
  <2>2. 0 \in Sessions!Slot
    BY ServiceAssumption DEF Sessions!SessionAssumption, Sessions!Slot
  <2>3. /\ info' \in [Thread -> Keystore!InfoType]
        /\ result' \in [Thread -> StatusCode]
        /\ cursor' \in [Thread -> Sessions!Slot]
    BY <1>1, <2>1, <2>2 DEF CInv, LocalTypes
  <2>4. lock' \in Thread \cup {NoThread} /\ key' = key /\ count' = count
    BY <1>1, <1>2 DEF CInv, LocalTypes
  <2>5. QED
    BY <1>3, <2>3, <2>4 DEF CInv, LocalTypes
<1>5. ASSUME NEW u \in Thread PROVE Here(u)'
  BY <1>3 DEF Here, InCall, At, CInv
<1>6. Exclusive'
  <2>1. ASSUME NEW u \in Thread
        PROVE  lock' = u <=> (pc'[u] # "idle" /\ request'[u].op \in Locked)
    BY <1>2, <1>3, ThreadAssumption DEF CInv, Exclusive, At
  <2>2. QED
    BY <2>1 DEF Exclusive, At
<1>7. /\ sessions_' = sessions_ /\ nextSessionId_' = nextSessionId_
      /\ keySlots_' = keySlots_ /\ uses' = uses /\ key' = key /\ count' = count
  BY <1>1 DEF hsmVars, sessionVars, keystoreVars
<1>8. SharedTypes' /\ HolderInv' /\ Tidy(committed.sessions)'
  <2>1. CASE lock = t /\ lock' = NoThread /\ committed' = shared
    <3>1. Finished(t) /\ AllCounted /\ Tidy(sessions_)
      BY <1>1, <2>1 DEF CInv, HolderInv, Progress, At
    <3>2. nextSessionId_ \in Sessions!IssuedId
      BY <3>1, FinishedTypes
    <3>3. /\ committed'.sessions = sessions_ /\ committed'.nextId = nextSessionId_
          /\ committed'.slots = keySlots_
      BY <2>1 DEF shared
    <3>4. SharedTypes'
      <4>1. committed' \in [sessions : [Sessions!Slot -> SessionRecord],
                            nextId : Sessions!IssuedId,
                            slots : [Keystore!KeySlot -> SlotRecord]]
        BY <2>1, <3>2 DEF shared, CInv, SharedTypes
      <4>2. QED
        BY <1>1, <1>7, <4>1 DEF CInv, SharedTypes, hsmVars, sessionVars, keystoreVars
    <3>5. AllCounted'
      BY <1>7, <3>1 DEF AllCounted, CountRight
    <3>6. Clean'
      BY <1>7, <3>3, <3>5 DEF Clean, SessionsAre
    <3>7. HolderInv'
      BY <2>1, <3>6, ThreadAssumption DEF HolderInv
    <3>8. Tidy(committed.sessions)'
      BY <3>1, <3>3 DEF Tidy
    <3>9. QED
      BY <3>4, <3>7, <3>8
  <2>2. CASE lock # t /\ lock' = lock /\ committed' = committed
    <3>1. SharedTypes' /\ Tidy(committed.sessions)'
      BY <1>1, <1>7, <2>2 DEF CInv, SharedTypes, Tidy, hsmVars, sessionVars,
                              keystoreVars
    <3>2. HolderInv'
      BY <1>3, <1>7, <2>2, BystanderKeeps
    <3>3. QED
      BY <3>1, <3>2
  <2>3. QED
    BY <1>2, <2>1, <2>2
<1>9. ASSUME NEW u \in Thread, request'[u].op = "isSessionValid" PROVE Tracked(u)'
  <2>1. u # t
    BY <1>3, <1>9 DEF Idle
  <2>2. NotLost
    BY <1>7, SameTableNotLost
  <2>3. ActivationGoesOn
    BY <1>1, <1>2, <1>3, <1>7 DEF ActivationGoesOn, At
  <2>4. QED
    BY <1>3, <1>9, <2>1, <2>2, <2>3, OthersTracked
<1>10. ReaderInv'
  BY <1>9 DEF ReaderInv
<1>11. QED
  BY <1>4, <1>5, <1>6, <1>8, <1>10 DEF CInv, Here

-----------------------------------------------------------------------------
(* Every state satisfies the invariant.                                     *)

LEMMA InitHolds == Init => CInv
<1> SUFFICES ASSUME Init PROVE CInv
  OBVIOUS
<1>1. /\ 0 \in Sessions!Slot /\ 0 \in 0 .. CountRange - 1
      /\ 1 \in Sessions!IssuedId /\ 1 \in Sessions!SessionId
  BY ServiceAssumption DEF Sessions!SessionAssumption, Keystore!KeystoreAssumption,
                           Sessions!Slot, Sessions!IssuedId, Sessions!SessionId
<1>2. Keystore!BlankSlot \in SlotRecord /\ Sessions!NoSession \in SessionRecord
  BY BlankSlotSound, NoSessionType
<1>3. Keystore!BlankInfo \in Keystore!InfoType /\ Keystore!BlankKey \in Keystore!KeyType
  BY <1>2 DEF Keystore!BlankSlot, SlotRecord
<1>4. SharedTypes
  BY <1>1, <1>2 DEF Init, SharedTypes, shared
<1>5. LocalTypes
  BY <1>1, <1>3 DEF Init, LocalTypes, StatusCode
<1>6. \A t \in Thread : InCall(t) /\ (pc[t] \in {"idle", "start"} => cursor[t] = 0)
  BY DEF Init, InCall, At
<1>7. Exclusive
  BY ThreadAssumption DEF Init, Exclusive, At
<1>8. Tidy(committed.sessions)
  BY DEF Init, shared, Tidy, Sessions!NoSession
<1>9. Clean
  BY DEF Init, shared, Clean, SessionsAre, AllCounted, CountRight, Keystore!BlankSlot,
         Keystore!BlankInfo
<1>10. HolderInv
  BY <1>9, ThreadAssumption DEF Init, HolderInv
<1>11. ReaderInv
  BY DEF Init, ReaderInv, Idle
<1>12. QED
  BY <1>4, <1>5, <1>6, <1>7, <1>8, <1>10, <1>11 DEF CInv

LEMMA StutterKeeps == ASSUME CInv, UNCHANGED vars PROVE CInv'
<1>1. /\ sessions_' = sessions_ /\ nextSessionId_' = nextSessionId_
      /\ keySlots_' = keySlots_ /\ uses' = uses /\ committed' = committed
      /\ smInitialized_' = smInitialized_ /\ ksInitialized_' = ksInitialized_
      /\ isInitialized_' = isInitialized_ /\ wiring' = wiring
      /\ lock' = lock /\ pc' = pc /\ request' = request /\ result' = result
      /\ info' = info /\ key' = key /\ count' = count /\ cursor' = cursor
      /\ answers' = answers
  BY DEF vars, locals, hsmVars, sessionVars, keystoreVars
<1>2. SharedTypes' /\ Tidy(committed.sessions)'
  BY <1>1 DEF CInv, SharedTypes, Tidy
<1>3. LocalTypes' /\ Exclusive'
  BY <1>1 DEF CInv, LocalTypes, Exclusive, At
<1>4. \A u \in Thread : Here(u)'
  BY <1>1 DEF CInv, Here, InCall, At
<1>5. HolderInv'
  BY <1>1, BystanderKeeps
<1>6. ReaderInv'
  <2> SUFFICES ASSUME NEW u \in Thread, request'[u].op = "isSessionValid"
               PROVE  Tracked(u)'
    BY DEF ReaderInv
  <2>1. Tracked(u)
    BY <1>1 DEF CInv, ReaderInv
  <2>2. /\ \A id : Holders(sessions_', id) = Holders(sessions_, id)
        /\ \A id : IsLive(id, sessions_') = IsLive(id, sessions_)
        /\ \A id : IsLive(id, committed'.sessions) = IsLive(id, committed.sessions)
    BY <1>1
  <2>3. QED
    BY <1>1, <2>1, <2>2 DEF Tracked, At
<1>7. QED
  BY <1>2, <1>3, <1>4, <1>5, <1>6 DEF CInv, Here

LEMMA NextKeeps == ASSUME CInv, WritersLocked, [Next]_vars PROVE CInv'
<1>1. CASE UNCHANGED vars
  BY <1>1, StutterKeeps
<1>2. CASE Next
  <2>1. PICK t \in Thread : (Enter(t) /\ Observe) \/ Step(t)
    BY <1>2 DEF Next
  <2>2. CASE Enter(t) /\ Observe
    BY <2>2, EnterStep
  <2>3. CASE Step(t)
    <3>1. Observe
      BY <2>3 DEF Step
    <3>2. CASE TakeId(t) \/ Activate(t) \/ RestartIds(t) \/ Deactivate(t)
               \/ ForgetId(t)
      BY <3>1, <3>2, TakeIdStep, ActivateStep, RestartIdsStep, DeactivateStep,
         ForgetIdStep
    <3>3. CASE ReadId(t) \/ ReadActive(t) \/ GetKeySlotInfo(t)
      BY <3>1, <3>3, ReadIdStep, ReadActiveStep, GetKeySlotInfoStep
    <3>4. CASE StartImport(t) \/ WriteKey(t) \/ Occupy(t) \/ Describe(t)
      BY <3>1, <3>4, StartImportStep, WriteKeyStep, OccupyStep, DescribeStep
    <3>5. CASE StartDelete(t) \/ ClearKey(t) \/ ClearInfo(t) \/ ResetCount(t)
      BY <3>1, <3>5, StartDeleteStep, ClearKeyStep, ClearInfoStep, ResetCountStep
    <3>6. CASE CheckSession(t) \/ CheckPermissions(t) \/ FetchKey(t)
               \/ ReadCount(t) \/ WriteCount(t) \/ Apply(t)
      BY <3>1, <3>6, CheckSessionStep, CheckPermissionsStep, FetchKeyStep,
         ReadCountStep, WriteCountStep, ApplyStep
    <3>7. CASE Leave(t)
      BY <3>1, <3>7, LeaveStep
    <3>8. QED
      BY <2>3, <3>2, <3>3, <3>4, <3>5, <3>6, <3>7 DEF Step
  <2>4. QED
    BY <2>1, <2>2, <2>3
<1>3. QED
  BY <1>1, <1>2

\* The invariant holds of every run of the threads.
THEOREM Progresses ==
    ASSUME WritersLocked
    PROVE  Spec => []CInv
<1>1. Init => CInv
  BY InitHolds
<1>2. CInv /\ [Next]_vars => CInv'
  BY NextKeeps
<1>3. QED
  BY <1>1, <1>2, PTL DEF Spec

\* Authorisation holds when encrypt() and decrypt() use the key: between the
\* check and the use no other thread closed the session or changed the slot.
THEOREM AuthorisedWhenUsed ==
    ASSUME WritersLocked
    PROVE  Spec => []AuthorisedAtUse
<1>1. CInv => AuthorisedAtUse
  <2>1. SUFFICES ASSUME CInv, NEW t \in Thread, At(t, "apply")
                 PROVE  /\ request[t].session \in Sessions!LiveIds
                        /\ Mine(t).info.isOccupied /\ key[t] = Mine(t).key
                        /\ request[t].op \in Mine(t).info.permissions
    BY DEF AuthorisedAtUse
  <2>2. request[t].op \in Flags /\ ~At(t, "idle")
    BY <2>1 DEF At, CInv, InCall, Doing
  <2>3. Using(t, Increased(Old(t))) /\ key[t] = Old(t).key
    BY <2>1, <2>2, WriterHolds DEF Progress, Flags
  <2>4. Old(t) \in SlotRecord /\ request[t].slot \in Keystore!KeySlot
    BY <2>1, <2>2, OwnSlot
  <2>5. Mine(t) = Increased(Old(t))
    BY <2>1, <2>3, <2>4, SlotBefore DEF Using, Mine
  <2>6. Mine(t).info = Old(t).info /\ Mine(t).key = Old(t).key
    BY <2>4, <2>5 DEF Increased, SlotRecord
  <2>7. request[t].session \in Sessions!LiveIds
    BY <2>3 DEF Using, Permitted, Admitted, IsLive, SlotIs, Sessions!LiveIds,
                Sessions!ActiveSlots
  <2>8. QED
    BY <2>3, <2>6, <2>7 DEF Using, Permitted
<1>2. QED
  BY <1>1, Progresses, PTL

\* Whenever the mutex is free, the counter of every key has counted every key
\* that was fetched: no accessCount++ was lost between two threads.
THEOREM EveryUseCounted ==
    ASSUME WritersLocked
    PROVE  Spec => []CountsEveryUse
<1>1. CInv => CountsEveryUse
  BY DEF CInv, HolderInv, Clean, SessionsAre, AllCounted, CountRight, CountsEveryUse,
         Keystore!isSlotOccupied, Keystore!isValidSlotId
<1>2. QED
  BY <1>1, Progresses, PTL

\* isSessionValid(), called without the mutex while other threads open and close
\* sessions, gives an answer that was right at some moment while it ran, if its
\* argument is an id that sessions can have, and not that of free slots.
THEOREM AnswersWereTrue ==
    ASSUME WritersLocked
    PROVE  Spec => []AnswersAreTrue
<1>1. CInv => AnswersAreTrue
  BY DEF CInv, ReaderInv, Tracked, AnswersAreTrue
<1>2. QED
  BY <1>1, Progresses, PTL

\* With isSessionValid() locked like the methods that write, as ThreadSafeHsm
\* has it, the id of free slots is never called valid.
THEOREM LockedSentinelIsNeverValid ==
    ASSUME WritersLocked, "isSessionValid" \in Locked
    PROVE  Spec => []SentinelIsNeverValid
<1>1. CInv => SentinelIsNeverValid
  <2> SUFFICES ASSUME CInv, NEW t \in Thread, At(t, "return"),
                      request[t].op = "isSessionValid",
                      request[t].session = kInvalidSessionId
               PROVE  result[t] # "OK"
    BY DEF SentinelIsNeverValid
  <2>1. lock = t
    BY DEF CInv, Exclusive, At
  <2>2. Finished(t)
    BY <2>1 DEF CInv, HolderInv, Progress
  <2>3. result[t] = "OK" => Admitted(t)
    BY <2>2 DEF Finished, Done, Flags
  <2>4. ~Admitted(t)
    BY DEF CInv, Tidy, Admitted, IsLive
  <2>5. QED
    BY <2>3, <2>4
<1>2. QED
  BY <1>1, Progresses, PTL

-----------------------------------------------------------------------------
(* Every call takes effect at once.                                         *)

\* What the instance of the facade says that does not depend on its state.
LEMMA AtomicSame ==
    /\ Atomic!Sessions!Slot = Sessions!Slot
    /\ Atomic!Sessions!IssuedId = Sessions!IssuedId
    /\ Atomic!Sessions!NoSession = Sessions!NoSession
    /\ \A i, P : Atomic!Sessions!First(i, P) <=> Sessions!First(i, P)
    /\ \A i : Atomic!Sessions!Successor(i) = Sessions!Successor(i)
    /\ \A service, status : Atomic!Fails(service, status) <=> Fails(service, status)
    /\ Atomic!Keystore!KeySlot = Keystore!KeySlot
    /\ \A d : Atomic!Keystore!AcceptableSize(d) <=> Keystore!AcceptableSize(d)
    /\ \A slot : Atomic!Keystore!Cleared(slot) = Keystore!BlankSlot
<1>1. /\ Atomic!Sessions!Slot = Sessions!Slot
      /\ Atomic!Sessions!IssuedId = Sessions!IssuedId
      /\ Atomic!Sessions!NoSession = Sessions!NoSession
      /\ \A i, P : Atomic!Sessions!First(i, P) <=> Sessions!First(i, P)
      /\ \A i : Atomic!Sessions!Successor(i) = Sessions!Successor(i)
  BY DEF Atomic!Sessions!Slot, Sessions!Slot, Atomic!Sessions!IssuedId,
         Sessions!IssuedId, Atomic!Sessions!NoSession, Sessions!NoSession,
         Atomic!Sessions!First, Sessions!First, Atomic!Sessions!Successor,
         Sessions!Successor
<1>2. /\ \A service, status : Atomic!Fails(service, status) <=> Fails(service, status)
      /\ Atomic!Keystore!KeySlot = Keystore!KeySlot
      /\ \A d : Atomic!Keystore!AcceptableSize(d) <=> Keystore!AcceptableSize(d)
  BY DEF Atomic!Fails, Fails, Atomic!Keystore!KeySlot, Keystore!KeySlot,
         Atomic!Keystore!AcceptableSize, Keystore!AcceptableSize
<1>3. \A slot : Atomic!Keystore!Cleared(slot) = Keystore!BlankSlot
  BY DEF Atomic!Keystore!Cleared, Atomic!Keystore!BlankSlot, Keystore!BlankSlot,
         Atomic!Keystore!BlankInfo, Keystore!BlankInfo, Atomic!Keystore!BlankKey,
         Keystore!BlankKey, Atomic!Keystore!BlankMemory, Keystore!BlankMemory,
         Atomic!Keystore!Cell, Keystore!Cell
<1>4. QED
  BY <1>1, <1>2, <1>3

\* The services are up and wired, before the call and after it.
AllUp ==
    /\ smInitialized_ = TRUE /\ ksInitialized_ = TRUE /\ isInitialized_ = TRUE
    /\ wiring = FullyWired
Steady == UNCHANGED <<smInitialized_, ksInitialized_, isInitialized_, wiring>>
CommitsSessions(sessions, id) ==
    /\ committed'.sessions = sessions /\ committed'.nextId = id
    /\ committed'.slots = committed.slots
CommitsSlot(s, slot) ==
    /\ committed'.sessions = committed.sessions /\ committed'.nextId = committed.nextId
    /\ committed'.slots = [committed.slots EXCEPT ![s] = slot]
CommitsNothing == CommitsSessions(committed.sessions, committed.nextId)

LEMMA AtomicViews ==
    ASSUME CInv, AllUp
    PROVE  /\ Atomic!Sessions!FreeSlots = Free(committed.sessions)
           /\ \A id : {j \in Sessions!Slot : Atomic!Sessions!Holds(j, id)}
                       = Holders(committed.sessions, id)
           /\ \A id : Atomic!isSessionValid(id) <=> IsLive(id, committed.sessions)
           /\ \A id : id \in Atomic!Sessions!LiveIds <=> IsLive(id, committed.sessions)
           /\ \A s \in Keystore!KeySlot :
                /\ Atomic!Keystore!isSlotOccupied(s) <=> committed.slots[s].info.isOccupied
                /\ Atomic!Keystore!isValidSlotId(s)
                /\ Atomic!Keystore!SlotInfoStatus(s) = "OK"
<1>1. Atomic!Sessions!FreeSlots = Free(committed.sessions)
  BY AtomicSame DEF Atomic!Sessions!FreeSlots, Atomic!Sessions!ActiveSlots, Free
<1>2. \A id : {j \in Sessions!Slot : Atomic!Sessions!Holds(j, id)}
              = Holders(committed.sessions, id)
  BY DEF Atomic!Sessions!Holds, Holders
<1>3. \A id : id \in Atomic!Sessions!LiveIds <=> IsLive(id, committed.sessions)
  BY AtomicSame DEF Atomic!Sessions!LiveIds, Atomic!Sessions!ActiveSlots, IsLive
<1>4. \A id : Atomic!isSessionValid(id) <=> IsLive(id, committed.sessions)
  BY <1>3 DEF Atomic!isSessionValid, Atomic!Sessions!isSessionValid, AllUp
<1>5. \A s \in Keystore!KeySlot :
         /\ Atomic!Keystore!isSlotOccupied(s) <=> committed.slots[s].info.isOccupied
         /\ Atomic!Keystore!isValidSlotId(s)
         /\ Atomic!Keystore!SlotInfoStatus(s) = "OK"
  BY AtomicSame DEF Atomic!Keystore!isSlotOccupied, Atomic!Keystore!isValidSlotId,
                    Atomic!Keystore!SlotInfoStatus, AllUp
<1>6. QED
  BY <1>1, <1>2, <1>3, <1>4, <1>5

LEMMA NothingCommitted ==
    ASSUME Steady, CommitsNothing
    PROVE  Atomic!hsmVars' = Atomic!hsmVars
BY DEF Steady, CommitsNothing, CommitsSessions, Atomic!hsmVars,
       Atomic!sessionVars, Atomic!keystoreVars

\* createSession() and closeSession().
LEMMA CreateCommits ==
    ASSUME CInv, AllUp, Steady, NEW i \in Sessions!Slot,
           Sessions!First(i, Free(committed.sessions)),
           CommitsSessions(With(i, [id |-> committed.nextId, isActive |-> TRUE]),
                           Sessions!Successor(committed.nextId))
    PROVE  \E id \in Sessions!IssuedId \cup {NotWritten} : Atomic!createSession("OK", id)
<1>1. committed.nextId \in Sessions!IssuedId
  BY DEF CInv, SharedTypes
<1>2. Atomic!Sessions!createSession("OK", committed.nextId)
  BY AtomicSame, AtomicViews
     DEF Atomic!Sessions!createSession, AllUp, Steady, CommitsSessions, With
<1>3. Atomic!createSession("OK", committed.nextId)
  BY <1>2 DEF Atomic!createSession, AllUp, Steady, CommitsSessions,
              Atomic!keystoreVars
<1>4. QED
  BY <1>1, <1>3

LEMMA CreateRefused ==
    ASSUME CInv, AllUp, Steady, CommitsNothing, NEW status,
           \/ status = "ERR_SESSION_INVALID" /\ Free(committed.sessions) = {}
           \/ Fails("sessions", status)
    PROVE  \E id \in Sessions!IssuedId \cup {NotWritten} : Atomic!createSession(status, id)
<1>1. Atomic!hsmVars' = Atomic!hsmVars
  BY NothingCommitted
<1>2. UNCHANGED <<Atomic!keystoreVars, isInitialized_, wiring>>
      /\ Atomic!sessionVars' = Atomic!sessionVars
      /\ Atomic!Sessions!smVars' = Atomic!Sessions!smVars
  BY <1>1 DEF Atomic!hsmVars, Atomic!sessionVars, Atomic!Sessions!smVars
<1>3. CASE status = "ERR_SESSION_INVALID" /\ Free(committed.sessions) = {}
  <2>1. Atomic!Sessions!ActiveSlots = Atomic!Sessions!Slot
    BY <1>3, AtomicSame DEF Free, Atomic!Sessions!ActiveSlots
  <2>2. Atomic!Sessions!createSession(status, NotWritten)
    BY <1>2, <1>3, <2>1 DEF Atomic!Sessions!createSession, AllUp, NotWritten,
                            Atomic!Sessions!NotWritten
  <2>3. Atomic!createSession(status, NotWritten)
    BY <1>2, <2>2 DEF Atomic!createSession, AllUp
  <2>4. QED
    BY <2>3
<1>4. CASE Fails("sessions", status)
  <2>1. Atomic!createSession(status, NotWritten)
    BY <1>2, <1>4, AtomicSame
       DEF Atomic!createSession, AllUp, NotWritten, Atomic!NotWritten
  <2>2. QED
    BY <2>1
<1>5. QED
  BY <1>3, <1>4

LEMMA CloseCommits ==
    ASSUME CInv, AllUp, Steady, NEW i \in Sessions!Slot, NEW id,
           Sessions!First(i, Holders(committed.sessions, id)),
           CommitsSessions(With(i, Sessions!NoSession), committed.nextId)
    PROVE  Atomic!closeSession(id, "OK")
<1>1. Atomic!Sessions!closeSession(id, "OK")
  BY AtomicSame, AtomicViews
     DEF Atomic!Sessions!closeSession, AllUp, Steady, CommitsSessions, With
<1>2. QED
  BY <1>1 DEF Atomic!closeSession, Atomic!CallSessions, AllUp, Steady,
              CommitsSessions, Atomic!keystoreVars

LEMMA CloseRefused ==
    ASSUME CInv, AllUp, Steady, CommitsNothing, NEW id, NEW status,
           \/ status = "ERR_SESSION_INVALID" /\ ~IsLive(id, committed.sessions)
           \/ Fails("sessions", status)
    PROVE  Atomic!closeSession(id, status)
<1>1. Atomic!hsmVars' = Atomic!hsmVars
  BY NothingCommitted
<1>2. UNCHANGED <<Atomic!keystoreVars, isInitialized_, wiring>>
      /\ Atomic!sessionVars' = Atomic!sessionVars
      /\ Atomic!Sessions!smVars' = Atomic!Sessions!smVars
  BY <1>1 DEF Atomic!hsmVars, Atomic!sessionVars, Atomic!Sessions!smVars
<1>3. Atomic!Sessions!closeSession(id, status) \/ Atomic!Fails("sessions", status)
  BY <1>2, AtomicSame, AtomicViews DEF Atomic!Sessions!closeSession, AllUp
<1>4. QED
  BY <1>2, <1>3 DEF Atomic!closeSession, Atomic!CallSessions, AllUp

\* importKey(), deleteKey() and getKeySlotInfo().
LEMMA ImportCommits ==
    ASSUME CInv, AllUp, Steady, NEW s \in Keystore!KeySlot, NEW a, NEW d, NEW p,
           Keystore!AcceptableSize(d), ~committed.slots[s].info.isOccupied,
           CommitsSlot(s, Keystore!Filled(committed.slots[s], s, a, d, p))
    PROVE  Atomic!importKey(s, a, d, p, "OK")
<1>1. \A slot : Atomic!Keystore!Filled(slot, s, a, d, p) = Keystore!Filled(slot, s, a, d, p)
  BY DEF Atomic!Keystore!Filled, Keystore!Filled, Atomic!Keystore!CopyInto,
         Keystore!CopyInto, Atomic!Keystore!Cell, Keystore!Cell
<1>2. committed'.slots = [committed.slots EXCEPT ![s] =
                            Atomic!Keystore!Filled(@, s, a, d, p)]
  BY <1>1 DEF CommitsSlot, CInv, SharedTypes
<1>3. Atomic!Keystore!importKey(s, a, d, p, "OK")
  BY <1>2, AtomicSame, AtomicViews DEF Atomic!Keystore!importKey, AllUp, Steady
<1>4. QED
  BY <1>3 DEF Atomic!importKey, Atomic!CallKeystore, AllUp, Steady, CommitsSlot,
              Atomic!sessionVars

LEMMA ImportRefused ==
    ASSUME CInv, AllUp, Steady, CommitsNothing, NEW s \in Keystore!KeySlot,
           NEW a, NEW d, NEW p, NEW status,
           \/ ~Keystore!AcceptableSize(d) /\ status = "ERR_INVALID_PARAM"
           \/ /\ Keystore!AcceptableSize(d) /\ committed.slots[s].info.isOccupied
              /\ status = "ERR_KEY_SLOT_FULL"
           \/ Fails("keystore", status)
    PROVE  Atomic!importKey(s, a, d, p, status)
<1>1. /\ UNCHANGED <<Atomic!sessionVars, isInitialized_, wiring>>
      /\ Atomic!keystoreVars' = Atomic!keystoreVars
      /\ Atomic!Keystore!ksVars' = Atomic!Keystore!ksVars
  BY NothingCommitted DEF Atomic!hsmVars, Atomic!keystoreVars, Atomic!Keystore!ksVars
<1>2. \/ Atomic!Keystore!importKey(s, a, d, p, status)
      \/ Atomic!Fails("keystore", status)
  BY <1>1, AtomicSame, AtomicViews DEF Atomic!Keystore!importKey, AllUp
<1>3. QED
  BY <1>1, <1>2 DEF Atomic!importKey, Atomic!CallKeystore, AllUp

LEMMA DeleteCommits ==
    ASSUME CInv, AllUp, Steady, NEW s \in Keystore!KeySlot,
           committed.slots[s].info.isOccupied, CommitsSlot(s, Keystore!BlankSlot)
    PROVE  Atomic!deleteKey(s, "OK")
<1>1. committed'.slots = [committed.slots EXCEPT ![s] = Atomic!Keystore!Cleared(@)]
  BY AtomicSame DEF CommitsSlot
<1>2. Atomic!Keystore!deleteKey(s, "OK")
  BY <1>1, AtomicViews DEF Atomic!Keystore!deleteKey, AllUp, Steady
<1>3. QED
  BY <1>2 DEF Atomic!deleteKey, Atomic!CallKeystore, AllUp, Steady, CommitsSlot,
              Atomic!sessionVars

LEMMA DeleteRefused ==
    ASSUME CInv, AllUp, Steady, CommitsNothing, NEW s \in Keystore!KeySlot, NEW status,
           \/ ~committed.slots[s].info.isOccupied /\ status = "ERR_INVALID_PARAM"
           \/ Fails("keystore", status)
    PROVE  Atomic!deleteKey(s, status)
<1>1. /\ UNCHANGED <<Atomic!sessionVars, isInitialized_, wiring>>
      /\ Atomic!keystoreVars' = Atomic!keystoreVars
      /\ Atomic!Keystore!ksVars' = Atomic!Keystore!ksVars
  BY NothingCommitted DEF Atomic!hsmVars, Atomic!keystoreVars, Atomic!Keystore!ksVars
<1>2. Atomic!Keystore!deleteKey(s, status) \/ Atomic!Fails("keystore", status)
  BY <1>1, AtomicSame, AtomicViews DEF Atomic!Keystore!deleteKey, AllUp
<1>3. QED
  BY <1>1, <1>2 DEF Atomic!deleteKey, Atomic!CallKeystore, AllUp

LEMMA InfoCommits ==
    ASSUME CInv, AllUp, Steady, CommitsNothing, NEW s \in Keystore!KeySlot, NEW status,
           status = "OK" \/ Fails("keystore", status)
    PROVE  Atomic!getKeySlotInfo(s, status)
<1>1. /\ UNCHANGED <<Atomic!sessionVars, isInitialized_, wiring>>
      /\ Atomic!keystoreVars' = Atomic!keystoreVars
      /\ Atomic!Keystore!ksVars' = Atomic!Keystore!ksVars
  BY NothingCommitted DEF Atomic!hsmVars, Atomic!keystoreVars, Atomic!Keystore!ksVars
<1>2. Atomic!Keystore!getSlotInfo(s, status) \/ Atomic!Fails("keystore", status)
  BY <1>1, AtomicSame, AtomicViews DEF Atomic!Keystore!getSlotInfo
<1>3. QED
  BY <1>1, <1>2 DEF Atomic!getKeySlotInfo, Atomic!CallKeystore, AllUp

\* encrypt() and decrypt(): the checks, and the fetch of the key.
LEMMA CryptAdmission ==
    ASSUME CInv, AllUp, NEW flag, NEW id, NEW s \in Keystore!KeySlot
    PROVE  Atomic!Admission(flag, id, s, 1, 1, "OK") =
             IF ~IsLive(id, committed.sessions) THEN "ERR_SESSION_INVALID"
             ELSE IF flag \notin committed.slots[s].info.permissions
                    THEN "ERR_AUTH_FAILED" ELSE "OK"
<1>1. ~Atomic!BadBuffers(1, 1) /\ ~(s >= kMaxKeySlots)
  BY ServiceAssumption
     DEF Atomic!BadBuffers, Keystore!KeySlot, Keystore!KeystoreAssumption
<1>2. QED
  BY <1>1, AtomicViews DEF Atomic!Admission, Atomic!Permits, AllUp

LEMMA CryptCommits ==
    ASSUME CInv, AllUp, Steady, NEW flag, NEW id, NEW s \in Keystore!KeySlot,
           IsLive(id, committed.sessions),
           flag \in committed.slots[s].info.permissions,
           committed.slots[s].info.isOccupied,
           CommitsSlot(s, Increased(committed.slots[s]))
    PROVE  Atomic!crypt(flag, id, s, 1, 1, "OK")
<1>1. Atomic!Admission(flag, id, s, 1, 1, "OK") = "OK"
  BY CryptAdmission
<1>2. committed'.slots = [committed.slots EXCEPT ![s].accessCount =
                            Atomic!Keystore!NextCount(@)]
  BY DEF CommitsSlot, Increased, Keystore!NextCount, Atomic!Keystore!NextCount, CInv,
         SharedTypes
<1>3. Atomic!Keystore!getKey(s, "OK")
  BY <1>2, AtomicViews DEF Atomic!Keystore!getKey, AllUp, Steady
<1>4. ~Atomic!BadBuffers(1, 1)
  BY DEF Atomic!BadBuffers
<1>5. Atomic!Transform(1, 1, s, "OK")
  BY <1>3, <1>4
     DEF Atomic!Transform, Atomic!AlgorithmStatus, Atomic!StatusCode, AllUp,
         FullyWired
<1>6. "OK" = Atomic!Keystore!SlotInfoStatus(s) /\ "OK" \in Atomic!StatusCode
  BY AtomicViews DEF Atomic!StatusCode
<1>7. UNCHANGED <<Atomic!sessionVars, isInitialized_, wiring>>
  BY DEF Steady, CommitsSlot, Atomic!sessionVars
<1>8. QED
  BY <1>1, <1>5, <1>6, <1>7 DEF Atomic!crypt

LEMMA CryptRefused ==
    ASSUME CInv, AllUp, Steady, CommitsNothing, NEW flag, NEW id,
           NEW s \in Keystore!KeySlot, NEW status,
           \/ ~IsLive(id, committed.sessions) /\ status = "ERR_SESSION_INVALID"
           \/ /\ IsLive(id, committed.sessions)
              /\ flag \notin committed.slots[s].info.permissions
              /\ status = "ERR_AUTH_FAILED"
           \/ /\ IsLive(id, committed.sessions)
              /\ flag \in committed.slots[s].info.permissions
              /\ ~committed.slots[s].info.isOccupied
              /\ status = "ERR_INVALID_KEY_ID"
    PROVE  Atomic!crypt(flag, id, s, 1, 1, status)
<1>1. "OK" = Atomic!Keystore!SlotInfoStatus(s) /\ "OK" \in Atomic!StatusCode
  BY AtomicViews DEF Atomic!StatusCode
<1>2. /\ UNCHANGED <<Atomic!sessionVars, isInitialized_, wiring>>
      /\ Atomic!hsmVars' = Atomic!hsmVars
      /\ Atomic!Keystore!ksVars' = Atomic!Keystore!ksVars
  BY NothingCommitted DEF Atomic!hsmVars, Atomic!keystoreVars, Atomic!Keystore!ksVars
<1>3. CASE ~IsLive(id, committed.sessions) /\ status = "ERR_SESSION_INVALID"
  <2>1. Atomic!Admission(flag, id, s, 1, 1, "OK") = status
    BY <1>3, CryptAdmission
  <2>2. QED
    BY <1>1, <1>2, <1>3, <2>1 DEF Atomic!crypt
<1>4. CASE /\ IsLive(id, committed.sessions)
           /\ flag \notin committed.slots[s].info.permissions
           /\ status = "ERR_AUTH_FAILED"
  <2>1. Atomic!Admission(flag, id, s, 1, 1, "OK") = status
    BY <1>4, CryptAdmission
  <2>2. QED
    BY <1>1, <1>2, <1>4, <2>1 DEF Atomic!crypt
<1>5. CASE /\ IsLive(id, committed.sessions)
           /\ flag \in committed.slots[s].info.permissions
           /\ ~committed.slots[s].info.isOccupied
           /\ status = "ERR_INVALID_KEY_ID"
  <2>1. Atomic!Admission(flag, id, s, 1, 1, "OK") = "OK"
    BY <1>5, CryptAdmission
  <2>2. Atomic!Keystore!getKey(s, status)
    BY <1>2, <1>5, AtomicViews DEF Atomic!Keystore!getKey, AllUp
  <2>3. ~Atomic!BadBuffers(1, 1) /\ status \in Atomic!StatusCode /\ status # "OK"
    BY <1>5 DEF Atomic!BadBuffers, Atomic!StatusCode
  <2>4. Atomic!Transform(1, 1, s, status)
    BY <2>2, <2>3 DEF Atomic!Transform, AllUp, FullyWired
  <2>5. QED
    BY <1>1, <1>2, <2>1, <2>4 DEF Atomic!crypt
<1>6. QED
  BY <1>3, <1>4, <1>5

\* The holder that leaves commits what its operation does in one step.
LEMMA LeaveEffect ==
    ASSUME CInv, NEW t \in Thread, lock = t, Leave(t)
    PROVE  Effect(request[t], result[t], info[t])
<1> DEFINE r == request[t]
<1>1. committed' = shared /\ UNCHANGED hsmVars /\ At(t, "return")
  <2>1. At(t, "return") /\ UNCHANGED hsmVars
    BY DEF Leave
  <2>2. lock = t /\ committed' = shared
    BY DEF Leave
  <2>3. QED
    BY <2>1, <2>2
<1>2. AllUp /\ Steady
  BY <1>1 DEF AllUp, Steady, CInv, SharedTypes, hsmVars, sessionVars, keystoreVars
<1>3. /\ committed'.sessions = sessions_ /\ committed'.nextId = nextSessionId_
      /\ committed'.slots = keySlots_
  BY <1>1 DEF shared
<1>4. Finished(t)
  BY <1>1 DEF CInv, HolderInv, Progress
<1>5. r \in Request /\ ~At(t, "idle")
  BY <1>1 DEF CInv, InCall, At
<1>6. Clean => CommitsNothing
  BY <1>3 DEF Clean, SessionsAre, CommitsNothing, CommitsSessions
<1>7. \A s, id : SessionsAre(s, id) => CommitsSessions(s, id)
  BY <1>3 DEF SessionsAre, CommitsSessions
<1>8. \A s, slot : SlotIs(s, slot) => CommitsSlot(s, slot)
  BY <1>3 DEF SlotIs, CommitsSlot
<1>9. r.op \in {"importKey", "deleteKey", "getKeySlotInfo"} \cup Flags
        => r.slot \in Keystore!KeySlot
  BY <1>5, RequestFields
<1>10. CASE result[t] # "OK" /\ Clean /\ Reason(t, r.op, result[t])
  <2>1. CommitsNothing
    BY <1>6, <1>10
  <2>2. CASE r.op = "createSession"
    <3>1. \/ result[t] = "ERR_SESSION_INVALID" /\ Free(committed.sessions) = {}
          \/ Fails("sessions", result[t])
      BY <1>10, <2>2 DEF Reason, Flags
    <3>2. QED
      BY <1>2, <2>1, <2>2, <3>1, CreateRefused DEF Effect
  <2>3. CASE r.op = "closeSession"
    <3>1. \/ result[t] = "ERR_SESSION_INVALID" /\ ~IsLive(r.session, committed.sessions)
          \/ Fails("sessions", result[t])
      BY <1>10, <2>3 DEF Reason, Flags, Admitted
    <3>2. QED
      BY <1>2, <2>1, <2>3, <3>1, CloseRefused DEF Effect
  <2>4. CASE r.op = "importKey"
    <3>1. \/ ~Keystore!AcceptableSize(r.data) /\ result[t] = "ERR_INVALID_PARAM"
          \/ /\ Keystore!AcceptableSize(r.data)
             /\ committed.slots[r.slot].info.isOccupied
             /\ result[t] = "ERR_KEY_SLOT_FULL"
          \/ Fails("keystore", result[t])
      BY <1>10, <2>4 DEF Reason, Flags, Old
    <3>2. QED
      BY <1>2, <1>9, <2>1, <2>4, <3>1, ImportRefused DEF Effect
  <2>5. CASE r.op = "deleteKey"
    <3>1. \/ ~committed.slots[r.slot].info.isOccupied /\ result[t] = "ERR_INVALID_PARAM"
          \/ Fails("keystore", result[t])
      BY <1>10, <2>5 DEF Reason, Flags, Old
    <3>2. QED
      BY <1>2, <1>9, <2>1, <2>5, <3>1, DeleteRefused DEF Effect
  <2>6. CASE r.op \in Flags
    <3>1. \/ /\ ~IsLive(r.session, committed.sessions)
             /\ result[t] = "ERR_SESSION_INVALID"
          \/ /\ IsLive(r.session, committed.sessions)
             /\ r.op \notin committed.slots[r.slot].info.permissions
             /\ result[t] = "ERR_AUTH_FAILED"
          \/ /\ IsLive(r.session, committed.sessions)
             /\ r.op \in committed.slots[r.slot].info.permissions
             /\ ~committed.slots[r.slot].info.isOccupied
             /\ result[t] = "ERR_INVALID_KEY_ID"
      BY <1>10, <2>6 DEF Reason, Flags, Old, Admitted, Permitted
    <3>2. Atomic!crypt(r.op, r.session, r.slot, 1, 1, result[t])
      BY <1>2, <1>9, <2>1, <2>6, <3>1, CryptRefused
    <3>3. QED
      BY <2>6, <3>2 DEF Effect
  <2>7. QED
    BY <1>10, <2>2, <2>3, <2>4, <2>5, <2>6 DEF Reason
<1>11. CASE result[t] = "OK" /\ Done(t, r.op)
  <2>1. CASE r.op = "createSession"
    <3>1. PICK i \in Sessions!Slot :
            /\ Sessions!First(i, Free(committed.sessions))
            /\ CommitsSessions(With(i, [id |-> committed.nextId, isActive |-> TRUE]),
                               Sessions!Successor(committed.nextId))
      BY <1>7, <1>11, <2>1 DEF Done, Flags
    <3>2. QED
      BY <1>2, <1>11, <2>1, <3>1, CreateCommits DEF Effect
  <2>2. CASE r.op = "closeSession"
    <3>1. PICK i \in Sessions!Slot :
            /\ Sessions!First(i, Holders(committed.sessions, r.session))
            /\ CommitsSessions(With(i, Sessions!NoSession), committed.nextId)
      BY <1>7, <1>11, <2>2 DEF Done, Closing, Flags
    <3>2. QED
      BY <1>2, <1>11, <2>2, <3>1, CloseCommits DEF Effect
  <2>3. CASE r.op = "importKey"
    <3>1. /\ Keystore!AcceptableSize(r.data)
          /\ ~committed.slots[r.slot].info.isOccupied
          /\ CommitsSlot(r.slot, Keystore!Filled(committed.slots[r.slot], r.slot,
                                      r.algorithm, r.data, r.permissions))
      BY <1>8, <1>11, <2>3 DEF Done, Importing, Old, New, Flags
    <3>2. QED
      BY <1>2, <1>9, <1>11, <2>3, <3>1, ImportCommits DEF Effect
  <2>4. CASE r.op = "deleteKey"
    <3>1. /\ committed.slots[r.slot].info.isOccupied
          /\ CommitsSlot(r.slot, Keystore!BlankSlot)
      BY <1>8, <1>11, <2>4 DEF Done, Deleting, Old, Flags
    <3>2. QED
      BY <1>2, <1>9, <1>11, <2>4, <3>1, DeleteCommits DEF Effect
  <2>5. CASE r.op \in Flags
    <3>1. /\ IsLive(r.session, committed.sessions)
          /\ r.op \in committed.slots[r.slot].info.permissions
          /\ committed.slots[r.slot].info.isOccupied
          /\ CommitsSlot(r.slot, Increased(committed.slots[r.slot]))
      BY <1>8, <1>11, <2>5 DEF Done, Using, Permitted, Admitted, Old, Flags
    <3>2. Atomic!crypt(r.op, r.session, r.slot, 1, 1, "OK")
      BY <1>2, <1>9, <2>5, <3>1, CryptCommits
    <3>3. QED
      BY <1>11, <2>5, <3>2 DEF Effect
  <2>6. QED
    BY <1>11, <2>1, <2>2, <2>3, <2>4, <2>5 DEF Done
<1>12. CASE /\ r.op = "getKeySlotInfo" /\ Clean /\ info[t] = Old(t).info
            /\ result[t] = "OK" \/ Fails("keystore", result[t])
  <2>1. Atomic!getKeySlotInfo(r.slot, result[t])
    BY <1>2, <1>6, <1>9, <1>12, InfoCommits
  <2>2. QED
    BY <1>12, <2>1 DEF Effect, Old
<1>13. CASE /\ r.op = "isSessionValid" /\ Clean
            /\ result[t] = "OK" <=> Admitted(t)
  <2>1. committed' = committed
    BY <1>1, <1>13 DEF Clean, SessionsAre, shared, CInv, SharedTypes
  <2>2. (result[t] = "OK") = Atomic!isSessionValid(r.session)
    <3>1. Atomic!isSessionValid(r.session) <=> result[t] = "OK"
      BY <1>2, <1>13, AtomicViews DEF Admitted
    <3>2. Atomic!isSessionValid(r.session) \in BOOLEAN
      BY DEF Atomic!isSessionValid, Atomic!Sessions!isSessionValid
    <3>3. QED
      BY <3>1, <3>2
  <2>3. QED
    BY <1>13, <2>1, <2>2 DEF Effect
<1>14. QED
  BY <1>4, <1>10, <1>11, <1>12, <1>13 DEF Finished

\* A step moves its own thread, and one that has returned leaves.
LEMMA ReturnedLeaves ==
    ASSUME CInv, [Next]_vars, NEW t \in Thread, At(t, "return"), pc'[t] = "idle"
    PROVE  Leave(t)
<1>1. pc' # pc
  BY DEF At
<1>2. PICK u \in Thread : Enter(u) \/ Step(u)
  BY <1>1 DEF Next, vars
<1>3. pc \in [Thread -> Stage \cup {"idle", "start"}]
  BY DEF CInv, LocalTypes
<1>4. u = t
  <2>1. ASSUME u # t PROVE pc'[t] = pc[t]
    <3>1. CASE Enter(u) \/ Leave(u)
      BY <1>3, <2>1, <3>1 DEF Enter, Leave
    <3>2. CASE \E step : Goto(u, step)
      BY <1>3, <2>1, <3>2 DEF Goto
    <3>3. CASE \E status : Finish(u, status)
      BY <1>3, <2>1, <3>3 DEF Finish
    <3>4. CASE \/ TakeId(u) \/ Activate(u) \/ RestartIds(u) \/ Deactivate(u)
               \/ ForgetId(u)
      BY <3>2, <3>3, <3>4 DEF TakeId, Activate, RestartIds, Deactivate, ForgetId
    <3>5. CASE ReadId(u) \/ ReadActive(u) \/ GetKeySlotInfo(u)
      BY <3>2, <3>3, <3>5 DEF ReadId, ReadActive, NextSlot, GetKeySlotInfo
    <3>6. CASE StartImport(u) \/ WriteKey(u) \/ Occupy(u) \/ Describe(u)
      BY <3>2, <3>3, <3>6 DEF StartImport, WriteKey, Occupy, Describe
    <3>7. CASE StartDelete(u) \/ ClearKey(u) \/ ClearInfo(u) \/ ResetCount(u)
      BY <3>2, <3>3, <3>7 DEF StartDelete, ClearKey, ClearInfo, ResetCount
    <3>8. CASE \/ CheckSession(u) \/ CheckPermissions(u) \/ FetchKey(u)
               \/ ReadCount(u) \/ WriteCount(u) \/ Apply(u)
      BY <3>2, <3>3, <3>8 DEF CheckSession, CheckPermissions, FetchKey, ReadCount,
                              WriteCount, Apply
    <3>9. QED
      BY <1>2, <3>1, <3>4, <3>5, <3>6, <3>7, <3>8 DEF Step
  <2>2. QED
    BY <2>1 DEF At
<1>5. QED
  <2>1. ~Enter(t)
    BY DEF Enter, At
  <2>2. /\ ~TakeId(t) /\ ~Activate(t) /\ ~RestartIds(t) /\ ~Deactivate(t)
        /\ ~ForgetId(t) /\ ~ReadId(t) /\ ~ReadActive(t) /\ ~GetKeySlotInfo(t)
    BY DEF At, Calls, TakeId, Activate, RestartIds, Deactivate, ForgetId, ReadId,
           ReadActive, GetKeySlotInfo
  <2>3. /\ ~StartImport(t) /\ ~WriteKey(t) /\ ~Occupy(t) /\ ~Describe(t)
        /\ ~StartDelete(t) /\ ~ClearKey(t) /\ ~ClearInfo(t) /\ ~ResetCount(t)
    BY DEF At, Calls, StartImport, WriteKey, Occupy, Describe, StartDelete, ClearKey,
           ClearInfo, ResetCount
  <2>4. /\ ~CheckSession(t) /\ ~CheckPermissions(t) /\ ~FetchKey(t)
        /\ ~ReadCount(t) /\ ~WriteCount(t) /\ ~Apply(t)
    BY DEF At, Calls, CheckSession, CheckPermissions, FetchKey, ReadCount, WriteCount,
           Apply
  <2>5. QED
    BY <1>2, <1>4, <2>1, <2>2, <2>3, <2>4 DEF Step

\* Calls with the mutex held are atomic: seen from outside it, each does to the
\* shared state, and tells its caller, what the facade's operation of one step
\* does, although the code reads and writes in many.
THEOREM LockedCallsAreAtomic ==
    ASSUME WritersLocked
    PROVE  Spec => CallsAreAtomic
<1> DEFINE AtOnce == \A t \in Thread : (At(t, "return") /\ pc'[t] = "idle" /\ lock = t)
                        => Effect(request[t], result[t], info[t])
<1>1. CInv /\ [Next]_vars => [AtOnce]_vars
  <2>1. SUFFICES ASSUME CInv, [Next]_vars, NEW t \in Thread, At(t, "return"),
                        pc'[t] = "idle", lock = t
                 PROVE  Effect(request[t], result[t], info[t])
    OBVIOUS
  <2>2. QED
    BY <2>1, ReturnedLeaves, LeaveEffect
<1>2. QED
  BY <1>1, Progresses, PTL DEF Spec, CallsAreAtomic
=============================================================================
