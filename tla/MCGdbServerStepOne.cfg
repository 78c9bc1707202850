\* DEBUG_UI.md: "Step executes exactly one instruction."
CONSTANTS
    a = a
    b = b
    None = None
    Addrs <- TwoAddrs
    MaxBreakpoints = 1
    MaxWatchpoints = 1
    DebugUi = TRUE
CHECK_DEADLOCK FALSE
SPECIFICATION ServerSpec
INVARIANTS StepExecutesOne
