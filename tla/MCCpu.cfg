\* Two registers, words modulo 8, two modes of SR.
CONSTANTS
    WordMod = 8
    Segment = 4
    Regs <- TwoRegs
    Link = 1
    ResetPc = 0
    BootHandler = 4
    GeneralHandler = 0
    Poison = 6
    Values <- Only6
    Addresses <- Aligned4And6
    Offsets <- Aligned4And6
    Modes <- TwoModes
    TrapCodes <- Syscall
    DebugCauses <- SlotCause
SPECIFICATION Spec
INVARIANTS TypeOK BanksAgree FetchOrder ModeStackHonest
PROPERTIES PreciseExceptions RestartPoint DelayedLoads
\* The interpreter really stops: exit() on an unsupported access.
CHECK_DEADLOCK FALSE
