SPECIFICATION Spec
CONSTANTS
    BlockCount = 2
    CodeSets = 2
    DataSets = 2
    LineWords = 2
    MemLines = 9
    Word <- Words
    ZeroWord = "zero"
    CodeLatency = 1
    DataLatency = 1
    FailLatency = 1
    WriteBackLatency = 1
    Image <- MCImage
    ResetIp = 2
    CodeAddrs = {2, 3, 4}
    LoadAddrs = {3, 9, 16}
    StoreAddrs = {8, 9, 12}
    StoreWords = {"dead"}
    MessageWords = {"zero", "one"}
    ExitWords = {"zero"}
    DeadWord = "dead"
    CounterMod = 1
    NoWord = NoWord
    NoInstruction = NoInstruction
    NoMessage = NoMessage
INVARIANTS
    IInv
    FetchedWordIsProgram
    RequestStillValid
PROPERTIES
    DataPortImplementsWordMemory
