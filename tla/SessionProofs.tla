--------------------------- MODULE SessionProofs ---------------------------
(***************************************************************************)
(* Proofs about the session manager for every table size and every sentinel. *)
(*                                                                          *)
(* The argument: the id counter and the age of an id are tied together.  An  *)
(* id x handed out a creations ago satisfies x + a + 1 = nextSessionId_, or   *)
(* that value plus Lap if the counter restarted in between (IdAges, SlotAges). *)
(* Two sessions of equal id and of ages below Lap would have equal ages, but  *)
(* no two sessions were created at the same time (AgesDiffer).                *)
(***************************************************************************)
EXTENDS SessionHistory, FiniteSetTheorems, TLAPS

\* The id x was drawn from the counter a creations ago.
DrawnAgo(x, a, next) == x + a + 1 \in {next, next + Lap}

ActiveIdsIssued == \A i \in ActiveSlots : sessions_[i].id \in IssuedId

SlotAges == \A i \in ActiveSlots :
    slotAge[i] < Lap => DrawnAgo(sessions_[i].id, slotAge[i], nextSessionId_)

AgesDiffer == \A i, j \in ActiveSlots :
    (i # j /\ slotAge[i] = slotAge[j]) => slotAge[i] = Lap

IdAges == \A x \in IssuedId :
    idAge[x] < Lap => DrawnAgo(x, idAge[x], nextSessionId_)

IInv == TypeOK /\ ActiveIdsIssued /\ SlotAges /\ AgesDiffer /\ IdAges

-----------------------------------------------------------------------------
\* The values that init() writes have their types.
LEMMA FirstIdIssued == 1 \in IssuedId
BY SessionAssumption DEF IssuedId

LEMMA IssuedAreIds == IssuedId \subseteq SessionId
BY SessionAssumption DEF IssuedId, SessionId

LEMMA NoSessionType == NoSession \in [id : SessionId, isActive : BOOLEAN]
<1>1. kInvalidSessionId \in SessionId
  BY SessionAssumption DEF SessionId
<1>2. QED
  BY <1>1 DEF NoSession

\* The counter stays within the ids that exist.
LEMMA SuccessorIssued ==
    ASSUME NEW x \in IssuedId
    PROVE  Successor(x) \in IssuedId
BY SessionAssumption DEF IssuedId, Successor

\* Advancing the counter and the age together keeps them tied, also when the
\* counter restarts.
LEMMA DrawnAgoSuccessor ==
    ASSUME NEW x \in IssuedId, NEW a \in Age, NEW next \in IssuedId,
           a < Lap => DrawnAgo(x, a, next), Older(a) < Lap
    PROVE  DrawnAgo(x, Older(a), Successor(next))
BY SessionAssumption DEF IssuedId, Age, Lap, DrawnAgo, Older, Successor

\* The id that was just handed out has age 0.
LEMMA DrawnNow ==
    ASSUME NEW next \in IssuedId
    PROVE  DrawnAgo(next, 0, Successor(next))
BY SessionAssumption DEF IssuedId, Lap, DrawnAgo, Successor

\* What a successful createSession() does to the table.
LEMMA CreateEffect ==
    ASSUME TypeOK, NEW id, createSession("OK", id)
    PROVE  /\ isInitialized_ /\ isInitialized_' = isInitialized_
           /\ id = nextSessionId_ /\ id \in IssuedId
           /\ nextSessionId_' = Successor(nextSessionId_)
           /\ \E i \in Slot :
                /\ ~sessions_[i].isActive
                /\ sessions_' = [sessions_ EXCEPT ![i] = [id |-> id, isActive |-> TRUE]]
                /\ ActiveSlots' = ActiveSlots \cup {i}
                /\ \A j \in Slot : sessions_'[j] # sessions_[j] <=> j = i
<1>1. /\ isInitialized_ /\ isInitialized_' = isInitialized_
      /\ id = nextSessionId_
      /\ nextSessionId_' = Successor(nextSessionId_)
      /\ \E i \in Slot :
           /\ First(i, FreeSlots)
           /\ sessions_' = [sessions_ EXCEPT ![i] = [id |-> id, isActive |-> TRUE]]
  BY DEF createSession
<1>2. PICK i \in Slot :
           /\ First(i, FreeSlots)
           /\ sessions_' = [sessions_ EXCEPT ![i] = [id |-> id, isActive |-> TRUE]]
  BY <1>1
<1>3. ~sessions_[i].isActive
  BY <1>2 DEF First, FreeSlots, ActiveSlots
<1>4. \A j \in Slot : sessions_'[j] =
        IF j = i THEN [id |-> id, isActive |-> TRUE] ELSE sessions_[j]
  BY <1>2 DEF TypeOK, SMTypeOK
<1>5. ActiveSlots' = ActiveSlots \cup {i}
  BY <1>4 DEF ActiveSlots
<1>6. \A j \in Slot : sessions_'[j] # sessions_[j] <=> j = i
  BY <1>3, <1>4
<1>7. QED
  BY <1>1, <1>2, <1>3, <1>5, <1>6 DEF TypeOK, SMTypeOK

\* What a successful closeSession() does to the table.
LEMMA CloseEffect ==
    ASSUME TypeOK, NEW id, closeSession(id, "OK")
    PROVE  /\ isInitialized_
           /\ UNCHANGED <<isInitialized_, nextSessionId_>>
           /\ \E i \in ActiveSlots :
                /\ sessions_[i].id = id
                /\ sessions_' = [sessions_ EXCEPT ![i] = NoSession]
                /\ ActiveSlots' = ActiveSlots \ {i}
<1>1. /\ isInitialized_
      /\ UNCHANGED <<isInitialized_, nextSessionId_>>
      /\ \E i \in Slot :
           /\ First(i, {j \in Slot : Holds(j, id)})
           /\ sessions_' = [sessions_ EXCEPT ![i] = NoSession]
  BY DEF closeSession
<1>2. PICK i \in Slot :
           /\ First(i, {j \in Slot : Holds(j, id)})
           /\ sessions_' = [sessions_ EXCEPT ![i] = NoSession]
  BY <1>1
<1>3. i \in ActiveSlots /\ sessions_[i].id = id
  BY <1>2 DEF First, Holds, ActiveSlots
<1>4. \A j \in Slot : sessions_'[j] = IF j = i THEN NoSession ELSE sessions_[j]
  BY <1>2 DEF TypeOK, SMTypeOK
<1>5. ActiveSlots' = ActiveSlots \ {i}
  BY <1>4 DEF ActiveSlots, NoSession
<1>6. QED
  BY <1>1, <1>2, <1>3, <1>5

-----------------------------------------------------------------------------
\* The invariant holds initially, and every action preserves it.

LEMMA InitIInv == Init => IInv
<1> SUFFICES ASSUME Init PROVE IInv
  OBVIOUS
<1>1. TypeOK
  <2>1. SMTypeOK
    BY FirstIdIssued, NoSessionType DEF Init, SMInit, SMTypeOK
  <2>2. call \in Call
    BY DEF Init, Call, Operation, StatusCode, NotWritten
  <2>3. slotAge \in [Slot -> Age] /\ idAge \in [IssuedId -> Age] /\ opened \in Int
    BY SessionAssumption DEF Init, Age, Lap
  <2>4. QED
    BY <2>1, <2>2, <2>3 DEF TypeOK
<1>2. ActiveSlots = {}
  BY DEF Init, SMInit, ActiveSlots, NoSession
<1>3. IdAges
  BY SessionAssumption DEF Init, IdAges, Lap
<1>4. QED
  BY <1>1, <1>2, <1>3 DEF IInv, ActiveIdsIssued, SlotAges, AgesDiffer

\* init() and deinit() empty the table when they take effect.
LEMMA FreshIInv ==
    ASSUME SMTypeOK', call' \in Call,
           sessions_' = [i \in Slot |-> NoSession], NothingIssued
    PROVE  IInv'
<1>1. TypeOK'
  BY SessionAssumption DEF TypeOK, NothingIssued, Age, Lap
<1>2. ActiveSlots' = {}
  BY DEF ActiveSlots, NoSession
<1>3. IdAges'
  BY SessionAssumption DEF IdAges, NothingIssued, Lap
<1>4. QED
  BY <1>1, <1>2, <1>3 DEF IInv, ActiveIdsIssued, SlotAges, AgesDiffer

\* A step that only records a call.
LEMMA QuietIInv ==
    ASSUME IInv, UNCHANGED smVars, UNCHANGED <<slotAge, idAge, opened>>,
           call' \in Call
    PROVE  IInv'
BY DEF IInv, TypeOK, SMTypeOK, ActiveIdsIssued, SlotAges, AgesDiffer, IdAges,
       DrawnAgo, ActiveSlots, smVars

LEMMA InitialiseIInv == IInv /\ Initialise => IInv'
<1> SUFFICES ASSUME IInv, NEW status \in StatusCode, init(status),
                    call' = [op |-> "init", id |-> NotWritten, status |-> status],
                    IF isInitialized_ THEN UNCHANGED <<slotAge, idAge, opened>>
                                      ELSE NothingIssued
             PROVE  IInv'
  BY DEF Initialise
<1>1. call' \in Call
  BY DEF Call, Operation, NotWritten
<1>2. CASE isInitialized_
  BY <1>1, <1>2, QuietIInv DEF init
<1>3. CASE ~isInitialized_
  <2>1. /\ sessions_' = [i \in Slot |-> NoSession]
        /\ nextSessionId_' = 1 /\ isInitialized_' = TRUE
    BY <1>3 DEF init
  <2>2. SMTypeOK'
    BY <2>1, FirstIdIssued, NoSessionType DEF SMTypeOK
  <2>3. QED
    BY <1>1, <1>3, <2>1, <2>2, FreshIInv
<1>4. QED
  BY <1>2, <1>3

LEMMA DeinitialiseIInv == IInv /\ Deinitialise => IInv'
<1> SUFFICES ASSUME IInv, NEW status \in StatusCode, deinit(status),
                    call' = [op |-> "deinit", id |-> NotWritten, status |-> status],
                    IF isInitialized_ THEN NothingIssued
                                      ELSE UNCHANGED <<slotAge, idAge, opened>>
             PROVE  IInv'
  BY DEF Deinitialise
<1>1. call' \in Call
  BY DEF Call, Operation, NotWritten
<1>2. CASE isInitialized_
  <2>1. /\ sessions_' = [i \in Slot |-> NoSession]
        /\ nextSessionId_' = nextSessionId_ /\ isInitialized_' = FALSE
    BY <1>2 DEF deinit
  <2>2. SMTypeOK'
    BY <2>1, NoSessionType DEF IInv, TypeOK, SMTypeOK
  <2>3. QED
    BY <1>1, <1>2, <2>1, <2>2, FreshIInv
<1>3. CASE ~isInitialized_
  BY <1>1, <1>3, QuietIInv DEF deinit
<1>4. QED
  BY <1>2, <1>3

LEMMA CloseIInv == IInv /\ Close => IInv'
<1> SUFFICES ASSUME IInv, NEW id \in SessionId, NEW status \in StatusCode,
                    closeSession(id, status),
                    call' = [op |-> "closeSession", id |-> id, status |-> status],
                    opened' = IF status = "OK" THEN opened - 1 ELSE opened,
                    UNCHANGED <<slotAge, idAge>>
             PROVE  IInv'
  BY DEF Close
<1>1. call' \in Call
  BY DEF Call, Operation
<1>2. CASE status # "OK"
  BY <1>1, <1>2, QuietIInv DEF closeSession
<1>3. CASE status = "OK"
  <2>1. /\ UNCHANGED <<isInitialized_, nextSessionId_>>
        /\ \E i \in ActiveSlots :
             /\ sessions_' = [sessions_ EXCEPT ![i] = NoSession]
             /\ ActiveSlots' = ActiveSlots \ {i}
    BY <1>3, CloseEffect DEF IInv
  <2>2. PICK i \in ActiveSlots :
             /\ sessions_' = [sessions_ EXCEPT ![i] = NoSession]
             /\ ActiveSlots' = ActiveSlots \ {i}
    BY <2>1
  <2>3. \A j \in ActiveSlots' : j \in ActiveSlots /\ sessions_'[j] = sessions_[j]
    BY <2>2 DEF IInv, TypeOK, SMTypeOK, ActiveSlots
  <2>4. TypeOK'
    <3>1. SMTypeOK'
      BY <2>1, <2>2, NoSessionType DEF IInv, TypeOK, SMTypeOK
    <3>2. QED
      BY <1>1, <1>3, <3>1 DEF IInv, TypeOK
  <2>5. ActiveIdsIssued' /\ SlotAges' /\ AgesDiffer'
    BY <2>1, <2>3 DEF IInv, ActiveIdsIssued, SlotAges, AgesDiffer, DrawnAgo
  <2>6. IdAges'
    BY <2>1 DEF IInv, IdAges, DrawnAgo
  <2>7. QED
    BY <2>4, <2>5, <2>6 DEF IInv
<1>4. QED
  BY <1>2, <1>3

LEMMA CreateIInv == IInv /\ Create => IInv'
<1> SUFFICES ASSUME IInv, NEW status \in StatusCode,
                    NEW id \in IssuedId \cup {NotWritten},
                    createSession(status, id),
                    call' = [op |-> "createSession", id |-> id, status |-> status],
                    IF status = "OK"
                      THEN /\ slotAge' = [i \in Slot |->
                                 IF sessions_'[i] # sessions_[i]
                                   THEN 0 ELSE Older(slotAge[i])]
                           /\ idAge' = [x \in IssuedId |->
                                 IF x = id THEN 0 ELSE Older(idAge[x])]
                           /\ opened' = opened + 1
                      ELSE UNCHANGED <<slotAge, idAge, opened>>
             PROVE  IInv'
  BY DEF Create
<1>1. call' \in Call
  BY IssuedAreIds DEF Call, Operation
<1>2. CASE status # "OK"
  BY <1>1, <1>2, QuietIInv DEF createSession
<1>3. CASE status = "OK"
  <2> USE <1>3
  <2>1. /\ isInitialized_' = isInitialized_
        /\ id = nextSessionId_ /\ id \in IssuedId
        /\ nextSessionId_' = Successor(id)
        /\ \E i \in Slot :
             /\ ~sessions_[i].isActive
             /\ sessions_' = [sessions_ EXCEPT ![i] = [id |-> id, isActive |-> TRUE]]
             /\ ActiveSlots' = ActiveSlots \cup {i}
             /\ \A j \in Slot : sessions_'[j] # sessions_[j] <=> j = i
    BY CreateEffect DEF IInv
  <2>2. PICK i \in Slot :
             /\ ~sessions_[i].isActive
             /\ sessions_' = [sessions_ EXCEPT ![i] = [id |-> id, isActive |-> TRUE]]
             /\ ActiveSlots' = ActiveSlots \cup {i}
             /\ \A j \in Slot : sessions_'[j] # sessions_[j] <=> j = i
    BY <2>1
  \* The new session has age 0, the others grow older.
  <2>3. /\ i \notin ActiveSlots
        /\ sessions_'[i].id = id /\ slotAge'[i] = 0
        /\ \A j \in ActiveSlots : /\ j \in Slot /\ j # i
                                  /\ sessions_'[j] = sessions_[j]
                                  /\ slotAge'[j] = Older(slotAge[j])
    BY <2>2 DEF IInv, TypeOK, SMTypeOK, ActiveSlots
  <2>4. \A a \in Age : Older(a) \in Age /\ Older(a) > 0
    BY SessionAssumption DEF Age, Lap, Older
  <2>5. TypeOK'
    <3>1. [id |-> id, isActive |-> TRUE] \in [id : SessionId, isActive : BOOLEAN]
      BY <2>1, IssuedAreIds
    <3>2. SMTypeOK'
      BY <2>1, <2>2, <3>1, SuccessorIssued DEF IInv, TypeOK, SMTypeOK
    <3>3. 0 \in Age
      BY SessionAssumption DEF Age, Lap
    <3>4. slotAge' \in [Slot -> Age] /\ idAge' \in [IssuedId -> Age]
      BY <2>4, <3>3 DEF IInv, TypeOK
    <3>5. QED
      BY <1>1, <3>2, <3>4 DEF IInv, TypeOK
  <2>6. ActiveIdsIssued'
    BY <2>1, <2>2, <2>3 DEF IInv, ActiveIdsIssued
  <2>7. SlotAges'
    <3> SUFFICES ASSUME NEW j \in ActiveSlots', slotAge'[j] < Lap
                 PROVE  DrawnAgo(sessions_'[j].id, slotAge'[j], nextSessionId_')
      BY DEF SlotAges, DrawnAgo
    <3>1. CASE j = i
      BY <2>1, <2>3, <3>1, DrawnNow
    <3>2. CASE j # i
      <4>1. j \in ActiveSlots
        BY <2>2, <3>2
      <4>2. sessions_[j].id \in IssuedId /\ slotAge[j] \in Age
        BY <2>3, <4>1 DEF IInv, TypeOK, ActiveIdsIssued
      <4>3. slotAge[j] < Lap
                => DrawnAgo(sessions_[j].id, slotAge[j], nextSessionId_)
        BY <4>1 DEF IInv, SlotAges
      <4>4. QED
        BY <2>1, <2>3, <4>1, <4>2, <4>3, DrawnAgoSuccessor
    <3>3. QED
      BY <3>1, <3>2
  <2>8. AgesDiffer'
    <3> SUFFICES ASSUME NEW j \in ActiveSlots', NEW k \in ActiveSlots',
                        j # k, slotAge'[j] = slotAge'[k]
                 PROVE  slotAge'[j] = Lap
      BY DEF AgesDiffer
    <3>1. \A l \in ActiveSlots : slotAge[l] \in Age /\ slotAge'[l] > 0
      BY <2>3, <2>4 DEF IInv, TypeOK
    <3>2. j \in ActiveSlots /\ k \in ActiveSlots
      BY <2>2, <2>3, <3>1
    <3>3. Older(slotAge[j]) = Older(slotAge[k])
      BY <2>3, <3>2
    <3>4. slotAge[j] = slotAge[k] => slotAge[j] = Lap
      BY <3>2 DEF IInv, AgesDiffer
    <3>5. Older(slotAge[j]) = Lap
      BY <3>1, <3>2, <3>3, <3>4, SessionAssumption DEF Age, Lap, Older
    <3>6. QED
      BY <2>3, <3>2, <3>5
  <2>9. IdAges'
    <3> SUFFICES ASSUME NEW x \in IssuedId, idAge'[x] < Lap
                 PROVE  DrawnAgo(x, idAge'[x], nextSessionId_')
      BY DEF IdAges, DrawnAgo
    <3>1. CASE x = id
      BY <2>1, <3>1, DrawnNow
    <3>2. CASE x # id
      <4>1. idAge[x] \in Age /\ idAge'[x] = Older(idAge[x])
        BY <3>2 DEF IInv, TypeOK
      <4>2. idAge[x] < Lap => DrawnAgo(x, idAge[x], nextSessionId_)
        BY DEF IInv, IdAges
      <4>3. QED
        BY <2>1, <4>1, <4>2, DrawnAgoSuccessor
    <3>3. QED
      BY <3>1, <3>2
  <2>10. QED
    BY <2>5, <2>6, <2>7, <2>8, <2>9 DEF IInv
<1>4. QED
  BY <1>2, <1>3

\* The inductive invariant holds in every reachable state.
THEOREM Invariance == Spec => []IInv
<1>1. IInv /\ [Next]_vars => IInv'
  <2> SUFFICES ASSUME IInv, [Next]_vars PROVE IInv'
    OBVIOUS
  <2>1. CASE Initialise BY <2>1, InitialiseIInv
  <2>2. CASE Deinitialise BY <2>2, DeinitialiseIInv
  <2>3. CASE Create BY <2>3, CreateIInv
  <2>4. CASE Close BY <2>4, CloseIInv
  <2>5. CASE UNCHANGED vars
    BY <2>5, QuietIInv DEF vars, smVars, IInv, TypeOK
  <2>6. QED
    BY <2>1, <2>2, <2>3, <2>4, <2>5 DEF Next
<1>2. QED
  BY InitIInv, <1>1, PTL DEF Spec

\* The session manager's variables keep their types for every table size: in
\* particular nextSessionId_ never takes the sentinel's value.
THEOREM TypeCorrect == Spec => []TypeOK
BY Invariance, PTL DEF IInv

\* Equal ids of ages below a lap would have been drawn at the same time.
LEMMA IInvSeparatesIds == IInv => DuplicatesAreALapApart
<1> SUFFICES ASSUME IInv, NEW i \in ActiveSlots, NEW j \in ActiveSlots,
                    i # j, sessions_[i].id = sessions_[j].id,
                    Lap \notin {slotAge[i], slotAge[j]}
             PROVE  FALSE
  BY DEF DuplicatesAreALapApart
<1>1. slotAge[i] \in Age /\ slotAge[j] \in Age
  BY DEF IInv, TypeOK, ActiveSlots
<1>2. slotAge[i] < Lap /\ slotAge[j] < Lap
  BY <1>1, SessionAssumption DEF Age, Lap
<1>3. /\ DrawnAgo(sessions_[i].id, slotAge[i], nextSessionId_)
      /\ DrawnAgo(sessions_[i].id, slotAge[j], nextSessionId_)
  BY <1>2 DEF IInv, SlotAges
<1>4. sessions_[i].id \in IssuedId /\ nextSessionId_ \in IssuedId
  BY DEF IInv, ActiveIdsIssued, TypeOK, SMTypeOK
<1>5. slotAge[i] = slotAge[j]
  BY <1>1, <1>2, <1>3, <1>4, SessionAssumption DEF Age, Lap, DrawnAgo, IssuedId
<1>6. QED
  BY <1>2, <1>5 DEF IInv, AgesDiffer

\* createSession() may hand out an id that is still open, but only to a session
\* opened at least a whole lap of ids later.
THEOREM DuplicatesApart == Spec => []DuplicatesAreALapApart
BY Invariance, IInvSeparatesIds, PTL

\* An id comes back only after all the others: the restart of the counter at
\* the sentinel neither skips nor repeats an id.
THEOREM FullLapBeforeReissue == Spec => NoEarlyReissue
<1>1. IInv /\ [Next]_vars
        => [(call'.op = "createSession" /\ call'.status = "OK")
                => idAge[call'.id] >= Lap - 1]_vars
  <2> SUFFICES ASSUME IInv, Next, call'.op = "createSession", call'.status = "OK"
               PROVE  idAge[call'.id] >= Lap - 1
    OBVIOUS
  <2>1. Create
    BY DEF Next, Initialise, Deinitialise, Close
  <2>2. PICK id : createSession("OK", id) /\ call'.id = id
    BY <2>1 DEF Create
  <2>3. id = nextSessionId_ /\ id \in IssuedId
    BY <2>2, CreateEffect DEF IInv
  <2>4. idAge[id] \in Age
    BY <2>3 DEF IInv, TypeOK
  <2>5. idAge[id] < Lap => DrawnAgo(id, idAge[id], id)
    BY <2>3 DEF IInv, IdAges
  <2>6. QED
    BY <2>2, <2>3, <2>4, <2>5, SessionAssumption DEF Age, Lap, DrawnAgo, IssuedId
<1>2. QED
  BY Invariance, <1>1, PTL DEF Spec, NoEarlyReissue

-----------------------------------------------------------------------------
\* The counting argument: a created session fills one free slot, a closed one
\* frees one, and Cardinality follows.

LEMMA ActiveFinite == IsFiniteSet(ActiveSlots) /\ Cardinality(Slot) = kMaxSessions
<1>1. IsFiniteSet(Slot) /\ Cardinality(Slot) = kMaxSessions
  BY FS_Interval, SessionAssumption DEF Slot
<1>2. ActiveSlots \subseteq Slot
  BY DEF ActiveSlots
<1>3. QED
  BY <1>1, <1>2, FS_Subset

\* Every step keeps the number of active slots equal to opened.
LEMMA CapacityStep ==
    ASSUME IInv, CapacityExact, Next
    PROVE  CapacityExact'
<1>0. Cardinality(ActiveSlots) = opened /\ opened \in Int
  BY DEF CapacityExact, IInv, TypeOK
<1>1. CASE Initialise
  <2>1. CASE isInitialized_
    <3>1. UNCHANGED <<sessions_, opened>> /\ call'.op = "init"
      BY <1>1, <2>1 DEF Initialise, init, smVars
    <3>2. ActiveSlots' = ActiveSlots
      BY <3>1 DEF ActiveSlots
    <3>3. QED
      BY <1>0, <3>1, <3>2 DEF CapacityExact
  <2>2. CASE ~isInitialized_
    <3>1. sessions_' = [i \in Slot |-> NoSession] /\ opened' = 0
          /\ call'.op = "init"
      BY <1>1, <2>2 DEF Initialise, init, NothingIssued
    <3>2. ActiveSlots' = {}
      BY <3>1 DEF ActiveSlots, NoSession
    <3>3. QED
      BY <3>1, <3>2, FS_EmptySet DEF CapacityExact
  <2>3. QED
    BY <2>1, <2>2
<1>2. CASE Deinitialise
  <2>1. CASE ~isInitialized_
    <3>1. UNCHANGED <<sessions_, opened>> /\ call'.op = "deinit"
      BY <1>2, <2>1 DEF Deinitialise, deinit, smVars
    <3>2. ActiveSlots' = ActiveSlots
      BY <3>1 DEF ActiveSlots
    <3>3. QED
      BY <1>0, <3>1, <3>2 DEF CapacityExact
  <2>2. CASE isInitialized_
    <3>1. sessions_' = [i \in Slot |-> NoSession] /\ opened' = 0
          /\ call'.op = "deinit"
      BY <1>2, <2>2 DEF Deinitialise, deinit, NothingIssued
    <3>2. ActiveSlots' = {}
      BY <3>1 DEF ActiveSlots, NoSession
    <3>3. QED
      BY <3>1, <3>2, FS_EmptySet DEF CapacityExact
  <2>3. QED
    BY <2>1, <2>2
<1>3. CASE Create
  <2>1. PICK status \in StatusCode, id \in IssuedId \cup {NotWritten} :
          /\ createSession(status, id)
          /\ call' = [op |-> "createSession", id |-> id, status |-> status]
          /\ opened' = IF status = "OK" THEN opened + 1 ELSE opened
    BY <1>3 DEF Create
  <2>2. CASE status = "OK"
    <3>1. createSession("OK", id)
      BY <2>1, <2>2
    <3>2. PICK i \in Slot : ~sessions_[i].isActive /\ ActiveSlots' = ActiveSlots \cup {i}
      BY <3>1, CreateEffect DEF IInv
    <3>3. i \notin ActiveSlots
      BY <3>2 DEF ActiveSlots
    <3>4. Cardinality(ActiveSlots') = Cardinality(ActiveSlots) + 1
      BY <3>2, <3>3, ActiveFinite, FS_AddElement
    <3>5. QED
      BY <1>0, <2>1, <2>2, <3>4 DEF CapacityExact
  <2>3. CASE status # "OK"
    <3>1. UNCHANGED <<sessions_, opened>>
      BY <2>1, <2>3 DEF createSession, smVars
    <3>2. status = "ERR_SESSION_INVALID" => ActiveSlots = Slot
      BY <2>1 DEF createSession
    <3>3. ActiveSlots' = ActiveSlots
      BY <3>1 DEF ActiveSlots
    <3>4. status = "ERR_SESSION_INVALID" => opened = kMaxSessions
      BY <1>0, <3>2, ActiveFinite
    <3>5. QED
      BY <1>0, <2>1, <3>1, <3>3, <3>4 DEF CapacityExact
  <2>4. QED
    BY <2>2, <2>3
<1>4. CASE Close
  <2>1. PICK id \in SessionId, status \in StatusCode :
          /\ closeSession(id, status)
          /\ call' = [op |-> "closeSession", id |-> id, status |-> status]
          /\ opened' = IF status = "OK" THEN opened - 1 ELSE opened
    BY <1>4 DEF Close
  <2>2. CASE status = "OK"
    <3>1. closeSession(id, "OK")
      BY <2>1, <2>2
    <3>2. PICK i \in ActiveSlots : ActiveSlots' = ActiveSlots \ {i}
      BY <3>1, CloseEffect DEF IInv
    <3>3. Cardinality(ActiveSlots') = Cardinality(ActiveSlots) - 1
      BY <3>2, ActiveFinite, FS_RemoveElement
    <3>4. QED
      BY <1>0, <2>1, <2>2, <3>3 DEF CapacityExact
  <2>3. CASE status # "OK"
    <3>1. UNCHANGED <<sessions_, opened>>
      BY <2>1, <2>3 DEF closeSession, smVars
    <3>2. ActiveSlots' = ActiveSlots
      BY <3>1 DEF ActiveSlots
    <3>3. QED
      BY <1>0, <2>1, <3>1, <3>2 DEF CapacityExact
  <2>4. QED
    BY <2>2, <2>3
<1>5. QED
  BY <1>1, <1>2, <1>3, <1>4 DEF Next

\* The table loses no session and refuses none while it has room: the number
\* of active slots is exactly the number of sessions created and not closed.
THEOREM CapacityIsExact == Spec => []CapacityExact
<1>1. Init => CapacityExact
  <2> SUFFICES ASSUME Init PROVE CapacityExact
    OBVIOUS
  <2>1. ActiveSlots = {}
    BY DEF Init, SMInit, ActiveSlots, NoSession
  <2>2. QED
    BY <2>1, FS_EmptySet DEF Init, CapacityExact
<1>2. IInv /\ CapacityExact /\ [Next]_vars => CapacityExact'
  <2> SUFFICES ASSUME IInv, CapacityExact, [Next]_vars PROVE CapacityExact'
    OBVIOUS
  <2>1. CASE UNCHANGED vars
    BY <2>1 DEF vars, CapacityExact, ActiveSlots
  <2>2. QED
    BY <2>1, CapacityStep
<1>3. QED
  BY <1>1, <1>2, Invariance, PTL DEF Spec

-----------------------------------------------------------------------------
\* closeSession() leaves no open session with the id it was given, unless one
\* of the open sessions is a whole lap of ids old.
THEOREM CloseIsFinal == Spec => CloseEndsSession
<1>1. IInv /\ [Next]_vars
        => [(/\ call'.op = "closeSession" /\ call'.status = "OK"
             /\ \A i \in ActiveSlots : slotAge[i] < Lap)
                => call'.id \notin ValidIds']_vars
  <2> SUFFICES ASSUME IInv, Next,
                      call'.op = "closeSession", call'.status = "OK",
                      \A i \in ActiveSlots : slotAge[i] < Lap
               PROVE  call'.id \notin ValidIds'
    OBVIOUS
  <2>1. Close
    BY DEF Next, Initialise, Deinitialise, Create
  <2>2. PICK id : closeSession(id, "OK") /\ call'.id = id
    BY <2>1 DEF Close
  <2>3. PICK i \in ActiveSlots :
          /\ sessions_[i].id = id
          /\ sessions_' = [sessions_ EXCEPT ![i] = NoSession]
          /\ ActiveSlots' = ActiveSlots \ {i}
    BY <2>2, CloseEffect DEF IInv
  <2>4. \A j \in ActiveSlots' : sessions_'[j] = sessions_[j]
    BY <2>3 DEF IInv, TypeOK, SMTypeOK, ActiveSlots
  <2>5. \A j \in ActiveSlots : Lap # slotAge[j]
    BY SessionAssumption DEF IInv, TypeOK, ActiveSlots, Age, Lap
  <2>6. \A j \in ActiveSlots : j # i => sessions_[j].id # id
    BY <2>3, <2>5, IInvSeparatesIds DEF DuplicatesAreALapApart
  <2>7. id \notin LiveIds'
    BY <2>3, <2>4, <2>6 DEF LiveIds
  <2>8. QED
    BY <2>2, <2>7 DEF ValidIds, isSessionValid
<1>2. QED
  BY Invariance, <1>1, PTL DEF Spec, CloseEndsSession

\* Calls of other clients do not disturb a session: its id stays valid until
\* it is closed or deinit() is called, and no id becomes valid by itself.
THEOREM SessionsAreIsolated == Spec => OthersSurvive
<1>1. IInv /\ Next => \A x \in SessionId : Undisturbed(x)
  <2> USE DEF Undisturbed
  <2> SUFFICES ASSUME IInv, Next, NEW x \in SessionId PROVE Undisturbed(x)
    OBVIOUS
  <2>1. CASE UNCHANGED <<sessions_, isInitialized_>>
    BY <2>1 DEF ValidIds, isSessionValid, LiveIds, ActiveSlots
  <2>2. CASE Initialise
    <3>1. CASE isInitialized_
      BY <2>1, <2>2, <3>1 DEF Initialise, init, smVars
    <3>2. CASE ~isInitialized_
      <4>1. sessions_' = [i \in Slot |-> NoSession]
        BY <2>2, <3>2 DEF Initialise, init
      <4>2. LiveIds' = {}
        BY <4>1 DEF LiveIds, ActiveSlots, NoSession
      <4>3. x \notin ValidIds /\ x \notin ValidIds'
        BY <3>2, <4>2 DEF ValidIds, isSessionValid
      <4>4. QED
        BY <4>3
    <3>3. QED
      BY <3>1, <3>2
  <2>3. CASE Deinitialise
    <3>1. x \notin ValidIds' /\ call'.op = "deinit"
      BY <2>3 DEF Deinitialise, deinit, ValidIds, isSessionValid, smVars
    <3>2. QED
      BY <3>1
  <2>4. CASE Create
    <3>1. PICK status, id :
            /\ createSession(status, id)
            /\ call' = [op |-> "createSession", id |-> id, status |-> status]
      BY <2>4 DEF Create
    <3>2. CASE status # "OK"
      BY <2>1, <3>1, <3>2 DEF createSession, smVars
    <3>3. CASE status = "OK"
      <4>1. /\ isInitialized_ /\ isInitialized_'
            /\ \E i \in Slot :
                 /\ ~sessions_[i].isActive
                 /\ sessions_' = [sessions_ EXCEPT ![i] = [id |-> id, isActive |-> TRUE]]
                 /\ ActiveSlots' = ActiveSlots \cup {i}
        BY <3>1, <3>3, CreateEffect DEF IInv
      <4>2. LiveIds' = LiveIds \cup {id}
        BY <4>1 DEF LiveIds, ActiveSlots, IInv, TypeOK, SMTypeOK
      <4>3. x \in ValidIds => x \in ValidIds'
        BY <4>1, <4>2 DEF ValidIds, isSessionValid
      <4>4. (x \notin ValidIds /\ x \in ValidIds') => x = id
        BY <4>1, <4>2 DEF ValidIds, isSessionValid
      <4>5. QED
        BY <3>1, <4>3, <4>4
    <3>4. QED
      BY <3>2, <3>3
  <2>5. CASE Close
    <3>1. PICK id \in SessionId, status \in StatusCode :
            /\ closeSession(id, status)
            /\ call' = [op |-> "closeSession", id |-> id, status |-> status]
      BY <2>5 DEF Close
    <3>2. CASE status # "OK"
      BY <2>1, <3>1, <3>2 DEF closeSession, smVars
    <3>3. CASE status = "OK"
      <4>1. /\ isInitialized_ /\ isInitialized_' = isInitialized_
            /\ \E i \in ActiveSlots :
                 /\ sessions_[i].id = id
                 /\ sessions_' = [sessions_ EXCEPT ![i] = NoSession]
                 /\ ActiveSlots' = ActiveSlots \ {i}
        BY <3>1, <3>3, CloseEffect DEF IInv
      <4>2. LiveIds' \subseteq LiveIds /\ LiveIds \subseteq LiveIds' \cup {id}
        BY <4>1 DEF LiveIds, ActiveSlots, IInv, TypeOK, SMTypeOK
      <4>3. (x \in ValidIds /\ x \notin ValidIds') => x = id
        BY <4>1, <4>2 DEF ValidIds, isSessionValid
      <4>4. x \in ValidIds' => x \in ValidIds
        BY <4>1, <4>2 DEF ValidIds, isSessionValid
      <4>5. QED
        BY <3>1, <4>3, <4>4
    <3>4. QED
      BY <3>2, <3>3
  <2>6. QED
    BY <2>2, <2>3, <2>4, <2>5 DEF Next
<1>2. IInv /\ [Next]_vars => [\A id \in SessionId : Undisturbed(id)]_vars
  BY <1>1
<1>3. QED
  BY Invariance, <1>2, PTL DEF Spec, OthersSurvive
=============================================================================
