SPECIFICATION LiveSpec
CONSTANTS
    kMaxSessions = 2
    kInvalidSessionId = 3
    kMaxKeySlots = 1
    kMaxKeySize = 1
    KeyMaterial = {m1}
    Zero = Zero
    NONE = NONE
    Algorithm = {NONE}
    NoPermissions = {}
    Permissions = {{}, {"ENCRYPT", "DECRYPT"}}
    CountRange = 1
    Wirings <- AnyWiring
    Faulty <- AllServices
    OwnerCalls = TRUE
    BufferSize = {0, 1}
INVARIANTS
    NothingLeftWhileDown
    NoKeysInStoppedKeystore
    SessionsRunWhileReady
PROPERTIES
    CryptoIsAuthorised
    StartCanBeRetried
