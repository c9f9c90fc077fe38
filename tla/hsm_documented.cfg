SPECIFICATION DocSpec
CONSTANTS
    kMaxSessions = 1
    kInvalidSessionId = 3
    kMaxKeySlots = 2
    kMaxKeySize = 2
    KeyMaterial = {m1}
    Zero = Zero
    NONE = NONE
    AES_256 = AES_256
    Algorithm = {NONE, AES_256}
    NoPermissions = {}
    Permissions = {{}}
    CountRange = 1
    Wirings <- CompleteWiring
    Faulty = {"keystore"}
    OwnerCalls = FALSE
    BufferSize = {1}
    KeySizeOf <- KeySizes
INVARIANTS
    SomeStatementHolds
