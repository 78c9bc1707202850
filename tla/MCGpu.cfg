\* Every command and both resets; image loads of no word and of two words.
CONSTANTS
    CommandWords <- AllCommands
    ParameterWords <- Parameters
    ControlWords <- Controls
    MaxImageWords = 2
SPECIFICATION Spec
INVARIANTS FramingCoherent NoInternalError
PROPERTIES ImplementsGp0Stream
CHECK_DEADLOCK FALSE
