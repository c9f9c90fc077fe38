---------------------------- MODULE HsmConcurrent ----------------------------
(***************************************************************************)
(* Threads that call one facade at the same time.  The library has no lock;  *)
(* docs/api/architecture.md:400 recommends a wrapper, ThreadSafeHsm, whose    *)
(* methods hold one mutex around the facade's.  Locked names the methods      *)
(* that do.                                                                 *)
(*                                                                          *)
(* A call takes the steps in which the code reads or writes the session table *)
(* and the keystore: what one step reads, another thread may have changed at   *)
(* the next.  init() and deinit() are called once, before and after the        *)
(* threads run.                                                             *)
(***************************************************************************)
EXTENDS HsmApi, FiniteSets

CONSTANTS
    Thread,
    NoThread,   \* the holder of a free mutex
    Operations, \* the operations that threads call
    Locked      \* those among them that are called with the mutex held

ASSUME ThreadAssumption == NoThread \notin Thread

VARIABLES
    lock,       \* the holder of ThreadSafeHsm::mutex_
    pc,         \* the next step of each thread
    request,    \* the call each thread makes: operation and arguments
    result,     \* the status it will return
    info,       \* encrypt()'s and the caller's copy of a slot's description
    key,        \* the crypto service's copy of a key
    count,      \* the value read by accessCount++
    cursor,     \* the loop over sessions_: the slot it has reached
    uses,       \* history: keys fetched from each slot since it was written
    committed,  \* history: the shared state when the mutex was last released
    answers     \* history: the answers isSessionValid() may give in each thread

locals == <<request, info, key, count, cursor>>
shared == [sessions |-> sessions_, nextId |-> nextSessionId_, slots |-> keySlots_]
vars == <<hsmVars, lock, pc, result, locals, uses, committed, answers>>

\* Buffers are of one byte and slots in range: other arguments are refused
\* before the call reads anything that threads share.  A session argument may be
\* kInvalidSessionId, which clients hold before they have a session.
Flags == {"ENCRYPT", "DECRYPT"}

Requests ==
    [op : {"createSession"}]
    \cup [op : {"closeSession", "isSessionValid"}, session : Sessions!SessionId]
    \cup [op : {"importKey"}, slot : Keystore!KeySlot, algorithm : Algorithm,
          data : Keystore!KeyData, permissions : Permissions]
    \cup [op : {"deleteKey", "getKeySlotInfo"}, slot : Keystore!KeySlot]
    \cup [op : Flags, session : Sessions!SessionId, slot : Keystore!KeySlot]
Request == {r \in Requests : r.op \in Operations}

Idle == [op |-> "none"]

Init ==
    /\ sessions_ = [i \in Sessions!Slot |-> Sessions!NoSession]
    /\ nextSessionId_ = 1
    /\ keySlots_ = [s \in Keystore!KeySlot |-> Keystore!BlankSlot]
    /\ smInitialized_ = TRUE /\ ksInitialized_ = TRUE /\ isInitialized_ = TRUE
    /\ wiring = FullyWired
    /\ lock = NoThread
    /\ pc = [t \in Thread |-> "idle"]
    /\ request = [t \in Thread |-> Idle]
    /\ result = [t \in Thread |-> "OK"]
    /\ info = [t \in Thread |-> Keystore!BlankInfo]
    /\ key = [t \in Thread |-> Keystore!BlankKey]
    /\ count = [t \in Thread |-> 0] /\ cursor = [t \in Thread |-> 0]
    /\ uses = [s \in Keystore!KeySlot |-> 0]
    /\ committed = shared /\ answers = [t \in Thread |-> {}]

-----------------------------------------------------------------------------
(* How a call moves through its steps.                                      *)

At(t, step) == pc[t] = step
Calls(t, op) == At(t, "start") /\ request[t].op = op
Goto(t, step) == pc' = [pc EXCEPT ![t] = step] /\ UNCHANGED <<lock, result, committed>>
Finish(t, status) ==
    /\ pc' = [pc EXCEPT ![t] = "return"]
    /\ result' = [result EXCEPT ![t] = status]
    /\ UNCHANGED <<lock, committed>>

Mine(t) == keySlots_[request[t].slot]
Write(t, slot) ==
    /\ keySlots_' = [keySlots_ EXCEPT ![request[t].slot] = slot]
    /\ UNCHANGED <<sessionVars, ksInitialized_, isInitialized_, wiring, locals>>

WriteSession(i, session) ==
    /\ sessions_' = [sessions_ EXCEPT ![i] = session]
    /\ UNCHANGED <<smInitialized_, keystoreVars, isInitialized_, wiring>>

Refusal == StatusCode \ {"OK"}

-----------------------------------------------------------------------------
(* Slips, see SessionManager.                                               *)

\* A wrapper that forgot the lock in one method.
GuardedExceptDelete(op) == op \in Locked \ {"deleteKey"}
GuardedExceptEncrypt(op) == op \in Locked \ {"ENCRYPT"}
\* A wrapper that tries again until the call succeeds.
LeaveOnSuccess(t) ==
    /\ At(t, "return")
    /\ IF result[t] = "OK"
         THEN /\ pc' = [pc EXCEPT ![t] = "idle"]
              /\ lock' = NoThread /\ committed' = shared
              /\ request' = [request EXCEPT ![t] = Idle]
         ELSE /\ pc' = [pc EXCEPT ![t] = "start"]
              /\ UNCHANGED <<lock, committed, request>>
    /\ UNCHANGED <<hsmVars, info, key, count, cursor, result, uses>>

-----------------------------------------------------------------------------
(* The wrapper: std::lock_guard around the call.                            *)

Guarded(op) == op \in Locked

Enter(t) == \E r \in Request :
    /\ At(t, "idle")
    /\ request' = [request EXCEPT ![t] = r]
    /\ pc' = [pc EXCEPT ![t] = "start"]
    /\ \/ Guarded(r.op) /\ lock = NoThread /\ lock' = t
       \/ ~Guarded(r.op) /\ UNCHANGED lock
    /\ UNCHANGED <<hsmVars, info, key, count, cursor, result, uses, committed>>

Leave(t) ==
    /\ At(t, "return")
    /\ pc' = [pc EXCEPT ![t] = "idle"]
    /\ request' = [request EXCEPT ![t] = Idle]
    /\ info' = [info EXCEPT ![t] = Keystore!BlankInfo]
    /\ result' = [result EXCEPT ![t] = "OK"]
    /\ \/ lock = t /\ lock' = NoThread /\ committed' = shared
       \/ lock # t /\ UNCHANGED <<lock, committed>>
    /\ UNCHANGED <<hsmVars, key, count, uses>>
    /\ cursor' = [cursor EXCEPT ![t] = 0]

-----------------------------------------------------------------------------
(* The calls.  Those that find nothing to do return at their first step.      *)

\* createSession() writes the id and the flag of the first free slot and then
\* moves the counter past the sentinel.
TakeId(t) ==
    /\ Calls(t, "createSession")
    /\ \/ \E status \in Refusal :
             createSession(status, NotWritten) /\ Finish(t, status)
             /\ UNCHANGED cursor
       \/ \E i \in Sessions!Slot :
            /\ Sessions!First(i, Sessions!FreeSlots)
            /\ WriteSession(i, [sessions_[i] EXCEPT !.id = nextSessionId_])
            /\ nextSessionId_' = nextSessionId_ + 1
            /\ cursor' = [cursor EXCEPT ![t] = i]
            /\ Goto(t, "activate")
    /\ UNCHANGED <<request, info, key, count, uses>>

Activate(t) ==
    /\ At(t, "activate") /\ Goto(t, "restartIds")
    /\ WriteSession(cursor[t], [sessions_[cursor[t]] EXCEPT !.isActive = TRUE])
    /\ UNCHANGED <<nextSessionId_, locals, uses>>

RestartIds(t) ==
    /\ At(t, "restartIds") /\ Finish(t, "OK")
    /\ nextSessionId_' =
         IF nextSessionId_ = kInvalidSessionId THEN 1 ELSE nextSessionId_
    /\ UNCHANGED <<sessions_, smInitialized_, keystoreVars, isInitialized_,
                   wiring, locals, uses>>

\* closeSession() resets the flag of the session's slot and then its id.
Deactivate(t) ==
    /\ Calls(t, "closeSession")
    /\ \/ \E status \in Refusal :
             closeSession(request[t].session, status) /\ Finish(t, status)
             /\ UNCHANGED cursor
       \/ \E i \in Sessions!Slot :
            /\ Sessions!First(i, {j \in Sessions!Slot :
                                   Sessions!Holds(j, request[t].session)})
            /\ WriteSession(i, [sessions_[i] EXCEPT !.isActive = FALSE])
            /\ UNCHANGED nextSessionId_
            /\ cursor' = [cursor EXCEPT ![t] = i]
            /\ Goto(t, "forgetId")
    /\ UNCHANGED <<request, info, key, count, uses>>

ForgetId(t) ==
    /\ At(t, "forgetId") /\ Finish(t, "OK")
    /\ WriteSession(cursor[t], [sessions_[cursor[t]] EXCEPT !.id = kInvalidSessionId])
    /\ UNCHANGED <<nextSessionId_, locals, uses>>

\* A slip: an isSessionValid() that does not look at the flag.
ReadIdOnly(t) ==
    /\ Calls(t, "isSessionValid") \/ At(t, "readId")
    /\ IF sessions_[cursor[t]].id = request[t].session
         THEN Finish(t, "OK") ELSE Finish(t, "ERR_SESSION_INVALID")
    /\ UNCHANGED <<hsmVars, locals, uses>>

\* isSessionValid() reads the id and, if that matches, the flag of one slot
\* after the other.  Its answer is recorded as a status.
NextSlot(t) ==
    IF cursor[t] + 1 \in Sessions!Slot
      THEN cursor' = [cursor EXCEPT ![t] = @ + 1] /\ Goto(t, "readId")
      ELSE Finish(t, "ERR_SESSION_INVALID") /\ UNCHANGED cursor

ReadId(t) ==
    /\ Calls(t, "isSessionValid") \/ At(t, "readId")
    /\ IF sessions_[cursor[t]].id = request[t].session
         THEN Goto(t, "readActive") /\ UNCHANGED cursor
         ELSE NextSlot(t)
    /\ UNCHANGED <<hsmVars, request, info, key, count, uses>>

ReadActive(t) ==
    /\ At(t, "readActive")
    /\ IF sessions_[cursor[t]].isActive
         THEN Finish(t, "OK") /\ UNCHANGED cursor
         ELSE NextSlot(t)
    /\ UNCHANGED <<hsmVars, request, info, key, count, uses>>

GetKeySlotInfo(t) ==
    /\ Calls(t, "getKeySlotInfo")
    /\ info' = [info EXCEPT ![t] = Mine(t).info]
    /\ \E status \in StatusCode :
          getKeySlotInfo(request[t].slot, status) /\ Finish(t, status)
    /\ UNCHANGED <<request, key, count, cursor, uses>>

\* importKey() tests the slot, then writes the key's memory, its description
\* in two parts, and the counter.
StartImport(t) ==
    /\ Calls(t, "importKey")
    /\ LET r == request[t] IN
         \/ \E status \in Refusal :
               /\ importKey(r.slot, r.algorithm, r.data, r.permissions, status)
               /\ Finish(t, status)
         \/ /\ Keystore!AcceptableSize(r.data)
            /\ ~Keystore!isSlotOccupied(r.slot)
            /\ Goto(t, "writeKey") /\ UNCHANGED hsmVars
    /\ UNCHANGED <<locals, uses>>

Imported(t) ==
    LET r == request[t]
    IN  Keystore!Filled(Mine(t), r.slot, r.algorithm, r.data, r.permissions)

WriteKey(t) ==
    /\ At(t, "writeKey") /\ Goto(t, "occupy")
    /\ Write(t, [Mine(t) EXCEPT !.key = Imported(t).key]) /\ UNCHANGED uses

Occupy(t) ==
    /\ At(t, "occupy") /\ Goto(t, "describe")
    /\ Write(t, [Mine(t) EXCEPT !.info.id = Imported(t).info.id,
                                !.info.isOccupied = TRUE])
    /\ UNCHANGED uses

Describe(t) ==
    /\ At(t, "describe") /\ Goto(t, "resetCount")
    /\ Write(t, [Mine(t) EXCEPT !.info = Imported(t).info]) /\ UNCHANGED uses

ResetCount(t) ==
    /\ At(t, "resetCount") /\ Finish(t, "OK")
    /\ Write(t, [Mine(t) EXCEPT !.accessCount = 0])
    /\ uses' = [uses EXCEPT ![request[t].slot] = 0]

\* deleteKey() tests the slot and clears it in the order of secureClear().
StartDelete(t) ==
    /\ Calls(t, "deleteKey")
    /\ \/ \E status \in Refusal :
             deleteKey(request[t].slot, status) /\ Finish(t, status)
       \/ /\ Keystore!isSlotOccupied(request[t].slot)
          /\ Goto(t, "clearKey") /\ UNCHANGED hsmVars
    /\ UNCHANGED <<locals, uses>>

ClearKey(t) ==
    /\ At(t, "clearKey") /\ Goto(t, "clearInfo")
    /\ Write(t, [Mine(t) EXCEPT !.key = Keystore!Cleared(@).key]) /\ UNCHANGED uses

ClearInfo(t) ==
    /\ At(t, "clearInfo") /\ Goto(t, "resetCount")
    /\ Write(t, [Mine(t) EXCEPT !.info = Keystore!Cleared(@).info]) /\ UNCHANGED uses

\* encrypt() and decrypt(): the session, the permissions of the description,
\* the copy of the key, accessCount++ as a read and a write, the algorithm.
CheckSession(t) ==
    /\ \E flag \in Flags : Calls(t, flag)
    /\ IF isSessionValid(request[t].session)
         THEN Goto(t, "permissions") ELSE Finish(t, "ERR_SESSION_INVALID")
    /\ UNCHANGED <<hsmVars, locals, uses>>

CheckPermissions(t) ==
    /\ At(t, "permissions")
    /\ info' = [info EXCEPT ![t] = Mine(t).info]
    /\ IF request[t].op \in info'[t].permissions
         THEN Goto(t, "fetch") ELSE Finish(t, "ERR_AUTH_FAILED")
    /\ UNCHANGED <<hsmVars, request, key, count, cursor, uses>>

FetchKey(t) ==
    /\ At(t, "fetch")
    /\ IF Mine(t).info.isOccupied
         THEN /\ key' = [key EXCEPT ![t] = Mine(t).key]
              /\ uses' = [uses EXCEPT ![request[t].slot] = Keystore!NextCount(@)]
              /\ Goto(t, "readCount")
         ELSE Finish(t, "ERR_INVALID_KEY_ID") /\ UNCHANGED <<key, uses>>
    /\ UNCHANGED <<hsmVars, request, info, count, cursor>>

ReadCount(t) ==
    /\ At(t, "readCount") /\ Goto(t, "writeCount")
    /\ count' = [count EXCEPT ![t] = Mine(t).accessCount]
    /\ UNCHANGED <<hsmVars, request, info, key, cursor, uses>>

WriteCount(t) ==
    /\ At(t, "writeCount") /\ Goto(t, "apply")
    /\ Write(t, [Mine(t) EXCEPT !.accessCount = Keystore!NextCount(count[t])])
    /\ UNCHANGED uses

\* The algorithm touches only the caller's buffers; then the copy is cleared.
Apply(t) ==
    /\ At(t, "apply") /\ Finish(t, "OK")
    /\ key' = [key EXCEPT ![t] = Keystore!BlankKey]
    /\ count' = [count EXCEPT ![t] = 0]
    /\ UNCHANGED <<hsmVars, request, info, cursor, uses>>

-----------------------------------------------------------------------------
\* While isSessionValid() runs, either answer that is true at some moment will
\* do: true of the table as it is, or as it was before the call under the lock.
IsLive(id, sessions) == \E i \in Sessions!Slot :
    sessions[i].id = id /\ sessions[i].isActive

Observe == answers' = [t \in Thread |->
    IF request'[t].op # "isSessionValid" THEN {}
    ELSE answers[t] \cup {IsLive(request'[t].session, sessions_'),
                          IsLive(request'[t].session, committed'.sessions)}]

Step(t) ==
    /\ \/ TakeId(t) \/ Activate(t) \/ RestartIds(t)
       \/ Deactivate(t) \/ ForgetId(t) \/ ReadId(t) \/ ReadActive(t)
       \/ GetKeySlotInfo(t)
       \/ StartImport(t) \/ WriteKey(t) \/ Occupy(t) \/ Describe(t)
       \/ StartDelete(t) \/ ClearKey(t) \/ ClearInfo(t) \/ ResetCount(t)
       \/ CheckSession(t) \/ CheckPermissions(t) \/ FetchKey(t)
       \/ ReadCount(t) \/ WriteCount(t) \/ Apply(t)
       \/ Leave(t)
    /\ Observe

Next == \E t \in Thread : (Enter(t) /\ Observe) \/ Step(t)

\* A thread inside a call keeps running.  Nothing is assumed of std::mutex: a
\* thread that waits to enter may never get in.
Spec == Init /\ [][Next]_vars /\ \A t \in Thread : WF_vars(Step(t))

-----------------------------------------------------------------------------
\* Authorisation holds when encrypt() and decrypt() use the key, not only when
\* they checked: the session is open, and the key they copied is the one in
\* the slot and permits the operation.
AuthorisedAtUse ==
    \A t \in Thread : At(t, "apply")
        => /\ request[t].session \in Sessions!LiveIds
           /\ Mine(t).info.isOccupied /\ key[t] = Mine(t).key
           /\ request[t].op \in Mine(t).info.permissions

\* No accessCount++ of two threads loses a count: while nobody is in a call,
\* the counter is the number of keys fetched since the slot was written.
CountsEveryUse ==
    lock = NoThread => \A s \in Keystore!KeySlot :
        Keystore!isSlotOccupied(s) => keySlots_[s].accessCount = uses[s]

\* Of an id that can be given to a session, isSessionValid() tells the truth
\* without the lock: its answer was right at some moment while it ran, although
\* it reads a table that other threads are writing.  Of kInvalidSessionId it does
\* not, see SentinelIsNeverValid.
AnswersAreTrue ==
    \A t \in Thread :
        (At(t, "return") /\ request[t].op = "isSessionValid"
           /\ request[t].session # kInvalidSessionId)
        => (result[t] = "OK") \in answers[t]

\* What docs/api/api_layer.md:165 says of isSessionValid(): thread-safe, being
\* read-only.  So it never calls kInvalidSessionId valid, as the check that
\* docs/api/middleware.md:293 shows would ensure.  The code lacks the check, and
\* every free slot has that id.
SentinelIsNeverValid ==
    \A t \in Thread :
        (At(t, "return") /\ request[t].op = "isSessionValid"
           /\ request[t].session = kInvalidSessionId)
        => result[t] # "OK"

\* Every call takes effect at once: between the release of the mutex before it
\* and the one after it, the shared state changes as the facade's operation
\* says and the caller gets the status (and description) that it says.  This is what
\* entitles HsmSystem to calls of one step.
Atomic == INSTANCE HsmApi WITH
    sessions_ <- committed.sessions, nextSessionId_ <- committed.nextId,
    keySlots_ <- committed.slots

Effect(r, status, description) ==
    \/ r.op = "createSession" /\ \E id \in Sessions!IssuedId \cup {NotWritten} :
          Atomic!createSession(status, id)
    \/ r.op = "closeSession" /\ Atomic!closeSession(r.session, status)
    \/ /\ r.op = "importKey"
       /\ Atomic!importKey(r.slot, r.algorithm, r.data, r.permissions, status)
    \/ r.op = "deleteKey" /\ Atomic!deleteKey(r.slot, status)
    \/ /\ r.op = "getKeySlotInfo" /\ Atomic!getKeySlotInfo(r.slot, status)
       /\ description = committed.slots[r.slot].info
    \/ /\ r.op = "isSessionValid" /\ UNCHANGED committed
       /\ (status = "OK") = Atomic!isSessionValid(r.session)
    \/ /\ r.op \in Flags
       /\ Atomic!crypt(r.op, r.session, r.slot, 1, 1, status)

CallsAreAtomic ==
    [][\A t \in Thread : (At(t, "return") /\ pc'[t] = "idle" /\ lock = t)
          => Effect(request[t], result[t], info[t])]_vars

\* Every call that has begun returns: no path through the calls keeps the
\* mutex.
EveryCallReturns == \A t \in Thread : ~At(t, "idle") ~> At(t, "idle")

\* What docs/api/api_layer.md:401 says of getKeySlotInfo(): thread-safe, being
\* read-only.  So the description it returns is one the slot can have between
\* calls: that of an empty slot or of a key that can be imported.
DescriptionIsWhole ==
    \A t \in Thread :
        (At(t, "return") /\ request[t].op = "getKeySlotInfo" /\ result[t] = "OK")
        => \/ info[t] = Keystore!BlankInfo
           \/ info[t].isOccupied /\ info[t].keySize \in 1 .. kMaxKeySize
=============================================================================
