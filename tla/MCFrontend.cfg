CONSTANTS
    MaxFaults = 2
SPECIFICATION FairMainSpec
INVARIANTS ReleasedInOrder GlInOwnContext
PROPERTIES QuitEnds
