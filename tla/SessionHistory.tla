--------------------------- MODULE SessionHistory ---------------------------
(***************************************************************************)
(* The session manager with its call history: the last call and its result, *)
(* and how many sessions were created since each id and each slot was last   *)
(* used.  The history never influences the program's variables.             *)
(*                                                                          *)
(* Ages saturate at Lap, the number of ids there are: an age of Lap reads    *)
(* "a full lap of the id counter or more", or "never since init".           *)
(***************************************************************************)
EXTENDS SessionManager, FiniteSets

VARIABLES
    call,       \* the last call: operation, id argument or output, status
    slotAge,    \* slotAge[i]: creations since slot i was last filled
    idAge,      \* idAge[x]: creations since id x was last handed out
    opened      \* sessions created minus sessions closed since init

vars == <<sessions_, isInitialized_, nextSessionId_,
          call, slotAge, idAge, opened>>

Lap == kInvalidSessionId - 1
Age == 0 .. Lap
Older(a) == IF a < Lap THEN a + 1 ELSE Lap

Operation == {"none", "init", "deinit", "createSession", "closeSession"}
Call == [op : Operation, id : SessionId \cup {NotWritten}, status : StatusCode]

NothingIssued ==
    /\ slotAge' = [i \in Slot |-> Lap]
    /\ idAge' = [x \in IssuedId |-> Lap]
    /\ opened' = 0

Init ==
    /\ SMInit
    /\ call = [op |-> "none", id |-> NotWritten, status |-> "OK"]
    /\ slotAge = [i \in Slot |-> Lap]
    /\ idAge = [x \in IssuedId |-> Lap]
    /\ opened = 0

\* A call of init() or deinit() that changes isInitialized_ starts afresh.
Initialise ==
    \E status \in StatusCode :
        /\ init(status)
        /\ call' = [op |-> "init", id |-> NotWritten, status |-> status]
        /\ IF isInitialized_ THEN UNCHANGED <<slotAge, idAge, opened>>
                             ELSE NothingIssued

Deinitialise ==
    \E status \in StatusCode :
        /\ deinit(status)
        /\ call' = [op |-> "deinit", id |-> NotWritten, status |-> status]
        /\ IF isInitialized_ THEN NothingIssued
                             ELSE UNCHANGED <<slotAge, idAge, opened>>

Create ==
    \E status \in StatusCode, id \in IssuedId \cup {NotWritten} :
        /\ createSession(status, id)
        /\ call' = [op |-> "createSession", id |-> id, status |-> status]
        /\ IF status = "OK"
             THEN /\ slotAge' = [i \in Slot |->
                        IF sessions_'[i] # sessions_[i]
                          THEN 0 ELSE Older(slotAge[i])]
                  /\ idAge' = [x \in IssuedId |->
                        IF x = id THEN 0 ELSE Older(idAge[x])]
                  /\ opened' = opened + 1
             ELSE UNCHANGED <<slotAge, idAge, opened>>

Close ==
    \E id \in SessionId, status \in StatusCode :
        /\ closeSession(id, status)
        /\ call' = [op |-> "closeSession", id |-> id, status |-> status]
        /\ opened' = IF status = "OK" THEN opened - 1 ELSE opened
        /\ UNCHANGED <<slotAge, idAge>>

Next == Initialise \/ Deinitialise \/ Create \/ Close

Spec == Init /\ [][Next]_vars

-----------------------------------------------------------------------------
ValidIds == {id \in SessionId : isSessionValid(id)}

\* Every variable has its type; ages never exceed a lap.
TypeOK ==
    /\ SMTypeOK
    /\ call \in Call
    /\ slotAge \in [Slot -> Age]
    /\ idAge \in [IssuedId -> Age]
    /\ opened \in Int

\* createSession() draws ids from a counter and never looks at the ids in the
\* table.  Two open sessions can share an id only if one of them has been open
\* while a whole lap of ids was handed out.
DuplicatesAreALapApart ==
    \A i, j \in ActiveSlots :
        (i # j /\ sessions_[i].id = sessions_[j].id)
            => Lap \in {slotAge[i], slotAge[j]}

\* The table has room exactly for the sessions that were created and not yet
\* closed: none is lost or overwritten, and createSession() reports
\* ERR_SESSION_INVALID only while kMaxSessions sessions are open.
CapacityExact ==
    /\ Cardinality(ActiveSlots) = opened
    /\ (call.op = "createSession" /\ call.status = "ERR_SESSION_INVALID")
            => opened = kMaxSessions

\* An id comes back only after every other id was handed out: the counter's
\* restart after the sentinel neither skips nor repeats an id.
NoEarlyReissue ==
    [][(call'.op = "createSession" /\ call'.status = "OK")
            => idAge[call'.id] >= Lap - 1]_vars

\* closeSession() ends the session of the id it is given: isSessionValid() is
\* false for that id afterwards, as long as no open session is a lap old.
CloseEndsSession ==
    [][(/\ call'.op = "closeSession" /\ call'.status = "OK"
        /\ \A i \in ActiveSlots : slotAge[i] < Lap)
            => call'.id \notin ValidIds']_vars

\* Who may end the validity of an id, and who may begin it.
Undisturbed(id) ==
    /\ (id \in ValidIds /\ id \notin ValidIds')
            => \/ call'.op = "deinit"
               \/ call'.op = "closeSession" /\ call'.id = id
    /\ (id \notin ValidIds /\ id \in ValidIds')
            => call'.op = "createSession" /\ call'.id = id

\* A valid session stays valid whatever other callers do: only closing its own
\* id or deinit() ends it, and only createSession() makes an id valid.
OthersSurvive == [][\A id \in SessionId : Undisturbed(id)]_vars
=============================================================================
