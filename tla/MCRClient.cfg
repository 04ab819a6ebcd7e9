SPECIFICATION Spec
CONSTANTS
    AnyVersion = FALSE
    Symbols = {"x", "y"}
    Values <- ThreeObjects
    NullObject <- EmptyObject
    Unset = Unset
    Encoded <- EntryOf
    Decoded <- ObjectOf
    RErrors <- MCRErrors
    Base = 4
    BigEndian = FALSE
    Passwords = {"right", "wrong"}
    Password = "right"
    ServerIDs <- MCServerIDs
INVARIANTS
    TypeOK
    LoginFitsSession
    LoginLasts
    AssignLasts
    CommandInv
PROPERTIES
    EvalTellsTruth
