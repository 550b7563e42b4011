SPECIFICATION FairSpec
CONSTANTS
    Regions <- MCRegions
    AppDatarates = {2}
    AppMasks <- MCAppMasks
    CFLists <- MCCFLists
    LinkAdrBlocks <- MCLinkAdrBlocks
    NewChannels <- MCNewChannels
    AdrAckLimit = 1
    AdrAckDelay = 2
    JoinPeriod = 2
    TrialsModulus = 3
    NbTrials = 3
    MaxChanges = 2
INVARIANTS
    PlanConsistent
    HopsEvenly
    LinkAdrUsable
PROPERTIES
    LegalChannel
    SilenceBacksOff
CHECK_DEADLOCK FALSE
