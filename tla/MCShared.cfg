SPECIFICATION Spec
CONSTANTS
    BlockCount = 1
    CodeSets = 1
    DataSets = 1
    LineWords = 3
    MemLines = 4
    Word <- Words
    ZeroWord = "zero"
    CodeLatency = 1
    DataLatency = 1
    FailLatency = 1
    WriteBackLatency = 1
    Image <- MCImage
    ResetIp = 3
    CodeAddrs = {3, 4, 6, 7}
    LoadAddrs = {8, 9}
    StoreAddrs = {8, 9}
    StoreWords = {"one"}
    MessageWords = {"zero", "one"}
    ExitWords = {"zero"}
    DeadWord = "dead"
    CounterMod = 1
    NoWord = NoWord
    NoInstruction = NoInstruction
    NoMessage = NoMessage
PROPERTY
    DataPortImplementsWordMemory
