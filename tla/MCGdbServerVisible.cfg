\* The stop that GDB does not see.  The program ends when a socket call fails.
CONSTANTS
    a = a
    b = b
    None = None
    Addrs <- OneAddr
    MaxBreakpoints = 1
    MaxWatchpoints = 1
    DebugUi = TRUE
CHECK_DEADLOCK FALSE
SPECIFICATION ServerSpec
PROPERTIES StopVisibleToGdb
