---------------------------- MODULE HsmDocumented ----------------------------
(***************************************************************************)
(* Five statements of the documentation and of the tests about what a call    *)
(* refuses or returns, none of which is true of the code.  refuted collects    *)
(* those that a behaviour has contradicted so far: a behaviour that contradicts *)
(* all of them shows each to be false.                                       *)
(***************************************************************************)
EXTENDS HsmSystem

CONSTANT KeySizeOf      \* getKeySizeForAlgorithm(), the size a key should have

VARIABLES
    revoked,    \* ids of the sessions that deinit() has ended
    refuted     \* the statements contradicted so far

(***************************************************************************)
(* retry   SessionManager::init() returns ERR_BUSY if it is initialized: so a  *)
(*         facade whose start failed half-way could not be started again       *)
(*         (docs/api/middleware.md:223).                                      *)
(* size    importKey() returns ERR_INVALID_PARAM if the key's size is not that *)
(*         of the algorithm (docs/api/api_layer.md:308, services.md:560).       *)
(* busy    deinit() returns ERR_BUSY while sessions are open                   *)
(*         (docs/api/api_layer.md:60).                                        *)
(* slotId  The description of an empty slot has the slot's id                  *)
(*         (tests/unit/test_keystore_service.cpp:341).                        *)
(* oldId   The id of a session that deinit() ended is not valid after the next *)
(*         init() and createSession()                                         *)
(*         (tests/unit/test_session_manager.cpp:413).                         *)
(***************************************************************************)
Contradicted == [
    retry  |-> /\ call'.op = "init" /\ call'.ok
               /\ ~isInitialized_ /\ smInitialized_,
    size   |-> /\ call'.op = "importKey" /\ call'.ok
               /\ LET info == keySlots_'[call'.args[1]].info
                  IN  info.keySize # KeySizeOf[info.algorithm],
    busy   |-> call'.op = "deinit" /\ call'.ok /\ Sessions!LiveIds # {},
    slotId |-> /\ call'.op = "getKeySlotInfo" /\ call'.ok
               /\ LET s == call'.args[1] IN
                    ~keySlots_[s].info.isOccupied /\ keySlots_[s].info.id # s,
    oldId  |-> \E id \in revoked' : isSessionValid(id)']

Statement == {"retry", "size", "busy", "slotId", "oldId"}

DocInit == Init /\ revoked = {} /\ refuted = {}

DocNext ==
    /\ Next
    /\ revoked' = IF call'.op = "deinit" /\ call'.ok
                    THEN revoked \cup Sessions!LiveIds ELSE revoked
    /\ refuted' = refuted \cup {s \in Statement : Contradicted[s]}

DocSpec == DocInit /\ [][DocNext]_<<vars, revoked, refuted>>

-----------------------------------------------------------------------------
\* Of the five statements at least one holds of every behaviour of the code.  A
\* counterexample contradicts each of them.
SomeStatementHolds == refuted # Statement
=============================================================================
