CONSTANTS
    Base = 4
    BigEndian = FALSE
    Inputs <- StringInputs
    Buildable <- Classed
    Filled <- fillREXP
    Decoded <- toREXP
    ServerEntry <- WireEntry
    Supported <- AsRead
SPECIFICATION Spec
INVARIANTS
    StringReturned
CHECK_DEADLOCK FALSE
