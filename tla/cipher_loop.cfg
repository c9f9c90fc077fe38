SPECIFICATION Spec
CONSTANTS
    MemorySize = 5
    Byte <- Bit
    Masked <- XorWithOne
INVARIANTS
    TypeOK
    OutputIsExpected
    OnlyOutputWritten
PROPERTIES
    DecryptRestores
