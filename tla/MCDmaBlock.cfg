\* Blocks and ordering tables in four words of RAM.
CONSTANTS
    RamWords = 4
    MaxBase = 31
    Ports <- BlockPorts
    Bases <- BlockBases
    BlockSizes <- Sizes
    BlockCounts <- Counts
    Controls <- BlockControls
    Words <- NoWords
SPECIFICATION Spec
INVARIANTS NeverLeftActive
PROPERTIES OtcBuildsTable UploadSendsBlock
CHECK_DEADLOCK FALSE
