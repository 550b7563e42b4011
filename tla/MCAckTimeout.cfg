SPECIFICATION FairSpec
CONSTANTS
    RequestTypes <- OnlyConfirmed
    DeviceClass = "CLASS_A"
    ChannelsNbTrans = 1
    NbTrials = 2
    TxPlans = {"OK"}
    Downlinks = {"ACK"}
    TxMayTimeOut = FALSE
    FCntModulus = 4
    FlagModulus = 2
    MaxRequests = 1
    MaxSleeps = 0
PROPERTIES
    EveryRequestConfirmed
CHECK_DEADLOCK FALSE
