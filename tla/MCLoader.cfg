SPECIFICATION Spec
CONSTANTS
    MemBytes = 4
    Byte = {0, 1, 2, 3}
    EhdrSize <- EhdrSizeForMC
    PhdrSize <- PhdrSizeForMC
    Files <- FilesForMC
INVARIANTS
    TypeOK
    MemoryHoldsPrefix
    ImageOnStart
CHECK_DEADLOCK FALSE
