SPECIFICATION FairSpec
CONSTANTS
    MaxCalls = 3
    HeaderLen = 2
    WordLen = 1
    LengthLimit = 4
    IDLength = 2
    AnyVersion = FALSE
    Requests <- MCFewRequests
    Responses <- MCFewResponses
    ServerIDs <- MCFewServerIDs
    AllocFailsAt <- EverySite
INVARIANTS
    AtMostOnce
    InStep
    ErrorEndsSession
    OwnResponseOnceRepaired
    RepairedInStep
    FaultInv
PROPERTIES
    CallReturns
    Advances
CHECK_DEADLOCK FALSE
