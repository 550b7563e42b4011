SPECIFICATION FairSpec
CONSTANTS
    RequestTypes <- OnlyUnconfirmed
    DeviceClass = "CLASS_A"
    ChannelsNbTrans = 2
    NbTrials = 1
    TxPlans = {"OK", "RESTRICTED", "NO_WAIT"}
    Downlinks <- AllDownlinks
    TxMayTimeOut = TRUE
    FCntModulus = 2
    FlagModulus = 2
    MaxRequests = 2
    MaxSleeps = 0
INVARIANTS
    HeaderMatchesMic
    RepetitionsBounded
PROPERTIES
    ConfirmNamesCounter
    ConfirmAfterWindows
    CounterNeverReused
    OneRequestAtATime
    TransmissionUndisturbed
    SentRequestsConfirmed
CHECK_DEADLOCK FALSE
