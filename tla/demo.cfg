SPECIFICATION Spec
CONSTANTS
    Program = {"main.cpp", "main.c"}
    kTestKeySlotId = 0
    AES_256 = AES_256
    m1 = m1
    TestKey <- OneByteKey
    kMaxSessions = 2
    kInvalidSessionId = 3
    kMaxKeySlots = 2
    kMaxKeySize = 2
    KeyMaterial = {m1}
    Zero = Zero
    NONE = NONE
    Algorithm = {NONE, AES_256}
    NoPermissions = {}
    Permissions = {{}, {"ENCRYPT", "DECRYPT"}}
    CountRange = 8
    Faulty <- AllServices
INVARIANTS
    CleansUp
    OwnKeyAndSession
