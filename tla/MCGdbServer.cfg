\* Two addresses; a list that holds both and lists that hold one, the window
\* open.  The program ends when a socket call fails, so that it may stop.
CONSTANTS
    a = a
    b = b
    None = None
    Addrs <- TwoAddrs
    MaxBreakpoints = 2
    MaxWatchpoints = 1
    DebugUi = TRUE
CHECK_DEADLOCK FALSE
SPECIFICATION FairServerSpec
INVARIANTS StepAtMostOne SkipOnlyAnnounced
PROPERTIES RemovesOnlyAddress ResumeLeavesBreakpoint ImplementsExecutionControl
    StepEnds StopReportedOnce GdbHearsBreakpoint OkMeansBoth StopReachesGdb
