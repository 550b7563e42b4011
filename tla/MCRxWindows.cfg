SPECIFICATION Spec

CONSTANTS
    Regions <- AllRegions
    SendChannels <- Channels
    SendDatarates <- Datarates
    NetFrequencies <- Frequencies
    NetRxDatarates <- RxDatarates
    NetDrOffsets <- DrOffsets
    NetJoinAccepts <- JoinAccepts
    NetDelays <- Delays
    NetChannelIds <- Ids
    MaxExchanges = 4
    MaxCommands = 2

INVARIANTS
    WindowsAgreed
    WindowsTimed
    LongestFrame
    WindowsLegal

CHECK_DEADLOCK FALSE
