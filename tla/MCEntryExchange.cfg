CONSTANTS
    Base = 4
    BigEndian = FALSE
    Inputs <- PlainInputs
    Buildable <- Classed
    Filled <- fillREXP
    Decoded <- toREXP
    ServerEntry <- WireEntry
    Supported <- AsRead
SPECIFICATION Spec
INVARIANTS
    WritesAsServer
    LengthsLeadToEnd
    RoundTrip
CHECK_DEADLOCK FALSE
