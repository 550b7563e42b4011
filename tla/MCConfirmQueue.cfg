SPECIFICATION QueueSpec
CONSTANTS
    Requests <- MCRequests
    Statuses <- MCStatuses
    ErrorStatus = "ERROR"
    NoRequest = NoRequest
    QueueLen = 3
PROPERTIES
    HandledAllReady
    ImplementsQueue
