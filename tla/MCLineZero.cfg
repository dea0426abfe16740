SPECIFICATION Spec
CONSTANTS
    BlockCount = 2
    CodeSets = 1
    DataSets = 1
    LineWords = 1
    MemLines = 3
    Word <- Words
    ZeroWord = "zero"
    CodeLatency = 1
    DataLatency = 1
    FailLatency = 1
    WriteBackLatency = 1
    Image <- MCImage
    ResetIp = 1
    CodeAddrs = {0, 1}
    LoadAddrs = {2}
    StoreAddrs = {2}
    StoreWords = {"zero", "one"}
    MessageWords = {"zero", "one"}
    ExitWords = {"zero"}
    DeadWord = "dead"
    CounterMod = 1
    NoWord = NoWord
    NoInstruction = NoInstruction
    NoMessage = NoMessage
INVARIANT
    NotCachedMisses
