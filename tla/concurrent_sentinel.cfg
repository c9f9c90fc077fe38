SPECIFICATION Spec
CONSTANTS
    Thread = {t1, t2}
    NoThread = NoThread
    Operations = {"createSession", "closeSession", "isSessionValid", "importKey", "deleteKey", "getKeySlotInfo", "ENCRYPT"}
    Locked = {"createSession", "closeSession", "importKey", "deleteKey", "ENCRYPT", "getKeySlotInfo"}
    kMaxSessions = 2
    kInvalidSessionId = 3
    kMaxKeySlots = 1
    kMaxKeySize = 1
    KeyMaterial = {m1}
    Zero = Zero
    NONE = NONE
    Algorithm = {NONE}
    NoPermissions = {}
    Permissions = {{}, {"ENCRYPT"}}
    CountRange = 2
    Faulty = {}
INVARIANTS
    SentinelIsNeverValid
