SPECIFICATION Spec
CONSTANTS
    BlockCount = 2
    CodeSets = 1
    DataSets = 1
    LineWords = 1
    MemLines = 4
    Word <- Words
    ZeroWord = "zero"
    CodeLatency = 1
    DataLatency = 1
    FailLatency = 1
    WriteBackLatency = 1
    Image <- MCImage
    ResetIp = 1
    CodeAddrs = {1, 2}
    LoadAddrs = {3}
    StoreAddrs = {3}
    StoreWords = {"zero", "one"}
    MessageWords = {"zero", "one"}
    ExitWords = {"zero"}
    DeadWord = "dead"
    CounterMod = 1
    NoWord = NoWord
    NoInstruction = NoInstruction
    NoMessage = NoMessage
INVARIANT
    CachedHits
