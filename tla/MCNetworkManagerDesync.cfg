SPECIFICATION Spec
CONSTANTS
    MaxCalls = 2
    HeaderLen = 2
    WordLen = 1
    LengthLimit = 4
    IDLength = 2
    AnyVersion = FALSE
    Requests <- MCFewRequests
    Responses <- MCFewResponses
    ServerIDs <- MCFewServerIDs
    AllocFailsAt <- EntryBuffer
INVARIANTS
    OwnResponse
CHECK_DEADLOCK FALSE
