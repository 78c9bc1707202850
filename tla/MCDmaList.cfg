\* Every list that can be laid out in three words of RAM.
CONSTANTS
    RamWords = 3
    MaxBase = 31
    Ports <- GpuPort
    Bases <- ListBases
    BlockSizes <- Zero
    BlockCounts <- Zero
    Controls <- ListControls
    Words <- ListWords
SPECIFICATION FairSpec
INVARIANTS OnlyEndlessGivenUp
PROPERTIES ListSendsPackets TransferTerminates
CHECK_DEADLOCK FALSE
