SPECIFICATION Spec
CONSTANTS
    MaxCalls = 3
    HeaderLen = 2
    WordLen = 1
    LengthLimit = 4
    IDLength = 2
    AnyVersion = FALSE
    Requests <- MCRequests
    Responses <- MCResponses
    ServerIDs <- MCServerIDs
    AllocFailsAt <- NoFailures
INVARIANTS
    TypeOK
    OwnResponse
    AtMostOnce
    WholeRequests
    InStep
    VersionCurrent
    ErrorEndsSession
    SyncInv
PROPERTIES
    ImplementsSession
    ImplementsCall
CHECK_DEADLOCK FALSE
