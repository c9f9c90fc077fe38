--------------------------- MODULE SessionManager ---------------------------
(***************************************************************************)
(* mw::SessionManager: a table of kMaxSessions slots and a 32-bit counter   *)
(* from which session ids are drawn.                                        *)
(*                                                                          *)
(* Every operation is a relation between the state before the call, the     *)
(* state after it, and what the caller sees (the status, the id written to  *)
(* the output parameter).  The facade composes these relations.             *)
(* Session::jobCount is left out: it is only ever set to 0.                 *)
(***************************************************************************)
EXTENDS HsmTypes

CONSTANTS
    kMaxSessions,       \* slots in the table (4 in key_slot.hpp)
    kInvalidSessionId   \* sentinel, and the bound of the id counter (2^32 - 1)

\* Ids 1 .. kInvalidSessionId - 1 exist; nothing below uses more than that.
ASSUME SessionAssumption ==
    /\ kMaxSessions \in Nat \ {0}
    /\ kInvalidSessionId \in Nat \ {0, 1}

VARIABLES sessions_, isInitialized_, nextSessionId_

smVars == <<sessions_, isInitialized_, nextSessionId_>>

Slot == 0 .. kMaxSessions - 1
IssuedId == 1 .. kInvalidSessionId - 1
SessionId == 1 .. kInvalidSessionId

NoSession == [id |-> kInvalidSessionId, isActive |-> FALSE]

SMInit ==
    /\ sessions_ = [i \in Slot |-> NoSession]
    /\ isInitialized_ = FALSE
    /\ nextSessionId_ = 1

-----------------------------------------------------------------------------
(* Slips: variants of definitions below that a change of the code could      *)
(* introduce.  Nothing uses them; substituting one must break a property.    *)

\* A search that takes any slot for free.
AnySlot == Slot
\* A search that does not compare the id.
HoldsAny(i, id) == sessions_[i].isActive
\* Restarting one id early, and not restarting at all.
SuccessorRestartsEarly(id) == IF id + 2 = kInvalidSessionId THEN 1 ELSE id + 1
SuccessorWithoutRestart(id) == id + 1
\* A start that refuses to be called again.
InitOnlyOnce(status) ==
    \/ isInitialized_ /\ status = "ERR_INVALID_PARAM" /\ UNCHANGED smVars
    \/ /\ ~isInitialized_
       /\ status = "OK"
       /\ sessions_' = [i \in Slot |-> NoSession]
       /\ nextSessionId_' = 1
       /\ isInitialized_' = TRUE

-----------------------------------------------------------------------------
(* Views of the table.                                                      *)

ActiveSlots == {i \in Slot : sessions_[i].isActive}
FreeSlots == Slot \ ActiveSlots
Holds(i, id) == sessions_[i].id = id /\ sessions_[i].isActive
LiveIds == {sessions_[i].id : i \in ActiveSlots}

\* The loops over sessions_ stop at the first slot that satisfies a condition.
First(i, P) == i \in P /\ \A j \in P : i <= j

-----------------------------------------------------------------------------
(* The operations.                                                          *)

init(status) ==
    /\ status = "OK"
    /\ \/ isInitialized_ /\ UNCHANGED smVars
       \/ /\ ~isInitialized_
          /\ sessions_' = [i \in Slot |-> NoSession]
          /\ nextSessionId_' = 1
          /\ isInitialized_' = TRUE

deinit(status) ==
    \/ ~isInitialized_ /\ status = "ERR_NOT_INITIALIZED" /\ UNCHANGED smVars
    \/ /\ isInitialized_
       /\ status = "OK"
       /\ sessions_' = [i \in Slot |-> NoSession]
       /\ isInitialized_' = FALSE
       /\ UNCHANGED nextSessionId_

\* The id after nextSessionId_.  The counter is a uint32_t that restarts at 1
\* on reaching the sentinel, so the increment itself never overflows.
Successor(id) == IF id + 1 = kInvalidSessionId THEN 1 ELSE id + 1

createSession(status, sessionId) ==
    \/ /\ ~isInitialized_
       /\ status = "ERR_NOT_INITIALIZED" /\ sessionId = NotWritten
       /\ UNCHANGED smVars
    \/ /\ isInitialized_
       /\ ActiveSlots = Slot
       /\ status = "ERR_SESSION_INVALID" /\ sessionId = NotWritten
       /\ UNCHANGED smVars
    \/ /\ isInitialized_
       /\ status = "OK" /\ sessionId = nextSessionId_
       /\ \E i \in Slot :
            /\ First(i, FreeSlots)
            /\ sessions_' =
                 [sessions_ EXCEPT ![i] = [id |-> sessionId, isActive |-> TRUE]]
       /\ nextSessionId_' = Successor(nextSessionId_)
       /\ UNCHANGED isInitialized_

closeSession(sessionId, status) ==
    \/ ~isInitialized_ /\ status = "ERR_NOT_INITIALIZED" /\ UNCHANGED smVars
    \/ /\ isInitialized_
       /\ sessionId \notin LiveIds
       /\ status = "ERR_SESSION_INVALID"
       /\ UNCHANGED smVars
    \/ /\ isInitialized_
       /\ status = "OK"
       /\ \E i \in Slot :
            /\ First(i, {j \in Slot : Holds(j, sessionId)})
            /\ sessions_' = [sessions_ EXCEPT ![i] = NoSession]
       /\ UNCHANGED <<isInitialized_, nextSessionId_>>

isSessionValid(sessionId) == isInitialized_ /\ sessionId \in LiveIds

-----------------------------------------------------------------------------
SMNext ==
    \E status \in StatusCode :
        \/ init(status)
        \/ deinit(status)
        \/ \E id \in IssuedId \cup {NotWritten} : createSession(status, id)
        \/ \E id \in SessionId : closeSession(id, status)

SMSpec == SMInit /\ [][SMNext]_smVars

SMTypeOK ==
    /\ sessions_ \in [Slot -> [id : SessionId, isActive : BOOLEAN]]
    /\ isInitialized_ \in BOOLEAN
    /\ nextSessionId_ \in IssuedId
=============================================================================
