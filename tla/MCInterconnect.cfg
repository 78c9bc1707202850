CONSTANTS
    RamSize = 4
    BiosSize = 8
    Bios <- Contents
    DmaWords <- Words
    GpuStatus <- Status
    Data = {0, 31}
    Addrs <- AllAddrs
    WriteAddrs <- RamAddrs
    MaxLength = 2
SPECIFICATION Spec
INVARIANTS RoutesSound ExamineAgreesWithLoad MemoryWriteAllOrNothing
CHECK_DEADLOCK FALSE
