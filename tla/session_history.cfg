SPECIFICATION Spec
CONSTANTS
    kMaxSessions = 3
    kInvalidSessionId = 5
INVARIANTS
    TypeOK
    DuplicatesAreALapApart
    CapacityExact
PROPERTIES
    NoEarlyReissue
    CloseEndsSession
    OthersSurvive
