SPECIFICATION Spec
CONSTANTS
    WordBits = 30
    DeadBeaf = 514571951
    Programs <- ProgramsForMC
    StartIps <- StartIpsForMC
    Contents <- ContentsForMC
    Instret = 5
    Cycle = 600
    LoadedWords = {7}
INVARIANTS
    TypeOK
    StagesOK
    ComputesWhatItSays
    TellsOthersWhatItSays
CHECK_DEADLOCK FALSE
