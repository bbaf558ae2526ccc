\* A cache of four bytes, a file of more than two fills, boxes that lead behind it.
CONSTANTS
    Size = 9
    CacheSize = 4
    MaxPos = 12
SPECIFICATION Spec
INVARIANTS
    TypeOK
    BufferIsFile
    TellExact
PROPERTY IsPlainFile
