SPECIFICATION FmcSpec
CONSTANT CodeSectors = 50
INVARIANTS
    ErasesExactly
PROPERTY ErasesOnce
CHECK_DEADLOCK FALSE
