CONSTANTS
    Base = 4
    BigEndian = FALSE
    Inputs <- NestedInputs
    Buildable <- Classed
    Filled <- fillREXP
    Decoded <- toREXP
    ServerEntry <- WireEntry
    Supported <- AsRead
SPECIFICATION Spec
INVARIANTS
    WritesAsServer
CHECK_DEADLOCK FALSE
