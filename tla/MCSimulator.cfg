SPECIFICATION SimSpec
CONSTANTS
    WordBits = 6
    Decodings <- DecodingsForMC
    BlockCount = 2
    CodeSets = 1
    DataSets = 1
    LineWords = 1
    MemLines = 9
    Word <- WordsForMC
    ZeroWord = 0
    CodeLatency = 1
    DataLatency = 1
    FailLatency = 2
    WriteBackLatency = 1
    Image <- MCImage
    ResetIp = 1
    CodeAddrs = {1, 2, 3, 4, 5}
    LoadAddrs = {6, 7, 8}
    StoreAddrs = {6, 7, 8}
    StoreWords <- WordsForMC
    MessageWords <- WordsForMC
    ExitWords <- ExitsForMC
    DeadWord = 61
    CounterMod = 4
    NoWord = NoWord
    NoInstruction = NoInstruction
    NoMessage = NoMessage
INVARIANTS
    SimTypeOK
PROPERTIES
    SimulatorImplementsIsa
