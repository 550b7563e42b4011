SPECIFICATION FairSpec
CONSTANTS
    MaxCalls = 4
    MaxPackets = 2
PROPERTIES
    FrameReported
    DeliveredOnce
CHECK_DEADLOCK FALSE
