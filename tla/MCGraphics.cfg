\* A buffer that, like the real one, is one vertex more than whole triangles.
CONSTANTS
    CommandWords <- Starts
    ParameterAt <- OneEach
    ControlWords <- Resets
    MaxImageWords = 1
    Capacity = 7
    Positions <- AllPositions
    Colors <- AllColors
    ZeroPosition <- Origin
    ZeroColor <- Black
    Triangles <- SentTriangles
    Quads <- SentQuads
    MaxFrame = 12
SPECIFICATION GraphicsSpec
INVARIANTS NeverOverflows ScreenShowsPackets
PROPERTIES ImplementsPrimitiveStream
CHECK_DEADLOCK FALSE
