SPECIFICATION Spec
CONSTANTS
    kMaxKeySlots = 2
    kMaxKeySize = 2
    KeyMaterial = {m1, m2}
    Zero = Zero
    NONE = NONE
    Algorithm = {NONE, AES_256}
    NoPermissions = NoPermissions
    Permissions = {NoPermissions}
    CountRange = 2
    MaxReads = 2
INVARIANTS
    TypeOK
    NoResidue
    AccessCountExact
PROPERTIES
    ImplementsContract
