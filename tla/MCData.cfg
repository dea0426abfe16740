SPECIFICATION Spec
CONSTANTS
    BlockCount = 2
    CodeSets = 1
    DataSets = 1
    LineWords = 1
    MemLines = 6
    Word <- Words
    ZeroWord = "zero"
    CodeLatency = 1
    DataLatency = 1
    FailLatency = 1
    WriteBackLatency = 1
    Image <- MCImage
    ResetIp = 1
    CodeAddrs = {1, 2}
    LoadAddrs = {3, 4, 5}
    StoreAddrs = {3, 4, 5}
    StoreWords = {"zero", "one"}
    MessageWords = {"zero", "one"}
    ExitWords = {"zero"}
    DeadWord = "dead"
    CounterMod = 1
    NoWord = NoWord
    NoInstruction = NoInstruction
    NoMessage = NoMessage
INVARIANTS
    TypeOK
    DataPlaced
    CleanCopiesMatchMemory
    RequestStillValid
    SurchargeOnlyForWriteBack
    SomeBlockUnused
PROPERTIES
    DataPortImplementsWordMemory
    EmptyBlocksFirst
