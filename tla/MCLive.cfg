SPECIFICATION FairSpec
CONSTANTS
    BlockCount = 2
    CodeSets = 1
    DataSets = 1
    LineWords = 1
    MemLines = 7
    Word <- Words
    ZeroWord = "zero"
    CodeLatency = 2
    DataLatency = 3
    FailLatency = 4
    WriteBackLatency = 2
    Image <- MCImage
    ResetIp = 1
    CodeAddrs = {1, 2, 3}
    LoadAddrs = {4, 5, 6}
    StoreAddrs = {4, 5, 6}
    StoreWords = {"zero"}
    MessageWords = {"zero"}
    ExitWords = {"zero"}
    DeadWord = "dead"
    CounterMod = 1
    NoWord = NoWord
    NoInstruction = NoInstruction
    NoMessage = NoMessage
PROPERTIES
    InstructionsComplete
