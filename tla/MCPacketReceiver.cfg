CONSTANTS
    Bytes = {"0", "1", "x", "#"}
    Value <- Values
    Digit <- Digits
    HexBase = 2
    Capacity = 3
    NoAckCommand <- AskNoAck
    KillCommand <- Kill
    MaxLine = 6
SPECIFICATION Spec
INVARIANTS HandlesFrames AckTellsFrame
PROPERTIES NoFrameLost
