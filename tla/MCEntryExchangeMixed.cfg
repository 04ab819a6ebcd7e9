CONSTANTS
    Base = 4
    BigEndian = FALSE
    Inputs <- MixedInputs
    Buildable <- Classed
    Filled <- fillREXP
    Decoded <- toREXP
    ServerEntry <- WireEntry
    Supported <- AsRead
SPECIFICATION Spec
INVARIANTS
    RoundTrip
CHECK_DEADLOCK FALSE
