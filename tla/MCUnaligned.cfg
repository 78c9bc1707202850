CONSTANTS
    Base = 12
    MemorySize = 8
    InitialMemory <- Distinct
    InitialRegister <- Register
    MaxInstructions = 3
SPECIFICATION PairSpec
INVARIANTS PairLoadsWord PairStoresWord
