CONSTANTS
    Base = 4
    BigEndian = TRUE
    Vectors <- ConsumerVectors
    CopiesAttributed = FALSE
    Encoded <- EntryOf
    Decoded <- toREXP
    ServerEntry <- WireEntry
    ServerData <- WireData
SPECIFICATION Spec
INVARIANTS
    ServerSeesData
    DataSurvives
    DataInv
CHECK_DEADLOCK FALSE
