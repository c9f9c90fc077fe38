SPECIFICATION Spec
CONSTANTS
    kMaxSessions = 1
    kInvalidSessionId = 3
    kMaxKeySlots = 2
    kMaxKeySize = 1
    KeyMaterial = {m1}
    Zero = Zero
    NONE = NONE
    Algorithm = {NONE}
    NoPermissions = {}
    Permissions = {{}, {"ENCRYPT"}, {"DECRYPT"}}
    CountRange = 1
    Wirings <- CompleteWiring
    Faulty = {}
    OwnerCalls = FALSE
    BufferSize = {0, 1}
INVARIANTS
    TypeOK
    ServicesFollowFacade
PROPERTIES
    CryptoIsAuthorised
    ImplementsContract
