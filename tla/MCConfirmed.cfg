SPECIFICATION Spec
CONSTANTS
    RequestTypes <- Mcps
    DeviceClass = "CLASS_A"
    ChannelsNbTrans = 1
    NbTrials = 2
    TxPlans = {"OK", "RESTRICTED", "NO_WAIT", "ERROR"}
    Downlinks = {"ACK", "INVALID"}
    TxMayTimeOut = FALSE
    FCntModulus = 2
    FlagModulus = 2
    MaxRequests = 2
    MaxSleeps = 1
INVARIANTS
    BusyForAReason
    TrialsBounded
CHECK_DEADLOCK FALSE
