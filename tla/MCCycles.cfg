SPECIFICATION Spec
CONSTRAINT FewInstructions
CONSTANTS
    MaxInstr = 3
    BlockCount = 1
    CodeSets = 1
    DataSets = 1
    LineWords = 1
    MemLines = 7
    Word <- Words
    ZeroWord = "zero"
    CodeLatency = 1
    DataLatency = 3
    FailLatency = 152
    WriteBackLatency = 120
    Image <- MCImage
    ResetIp = 1
    CodeAddrs = {1, 2, 3}
    LoadAddrs = {4, 5}
    StoreAddrs = {4, 5}
    StoreWords = {"zero"}
    MessageWords = {"zero"}
    ExitWords = {"zero"}
    DeadWord = "dead"
    CounterMod = 1000000
    NoWord = NoWord
    NoInstruction = NoInstruction
    NoMessage = NoMessage
INVARIANTS
    CycleBounds
    WaitsCounted
