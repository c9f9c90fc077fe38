SPECIFICATION Spec
CONSTANTS
    kMaxSessions = 1
    kInvalidSessionId = 3
    kMaxKeySlots = 1
    kMaxKeySize = 1
    KeyMaterial = {m1}
    Zero = Zero
    NONE = NONE
    Algorithm = {NONE}
    NoPermissions = {}
    Permissions = {{}, {"ENCRYPT", "DECRYPT"}}
    CountRange = 1
    Wirings <- CompleteWiring
    Faulty <- AllServices
    OwnerCalls = FALSE
    BufferSize = {0, 1}
INVARIANTS
    ReadyServicesRun
