SPECIFICATION Spec
CONSTANTS
    AnyVersion = FALSE
    Symbols = {"x"}
    Values <- Matrices
    NullObject <- EmptyObject
    Unset = Unset
    Encoded <- EntryOf
    Decoded <- ObjectOf
    RErrors <- MCRErrors
    Base = 4
    BigEndian = FALSE
    Passwords = {"right"}
    Password = "right"
    ServerIDs <- MCServerIDs
INVARIANTS
    PreviousCommandReported
