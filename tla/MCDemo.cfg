SPECIFICATION DemoSpec
CONSTANTS
    Base = 8
    BigEndian = FALSE
    AnyVersion = TRUE
    ServerIDs <- MCServerIDs
    Symbols <- Assigned
    Values <- Objects
    NullObject <- EmptyObject
    Unset = Unset
    Encoded <- EntryOf
    Decoded <- ObjectOf
    RErrors <- MCRErrors
    Passwords = {"v", "w"}
    Password = "v"
    Argvs <- MCArgvs
    Dashed <- MCDashed
    Port <- PortOf
    MaxRefusals = 1
INVARIANTS
    FlagsCombine
    ShowsItsData
    FlagsInv
    DemoInv
