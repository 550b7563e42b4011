SPECIFICATION Spec
CONSTANTS
    Bands <- MCBands
    DCycle <- MCDCycle
    AirTimes = {1, 2, 3}
    Usable <- MCUsable
    Period = 5
    Modulus = 32
    AggregatedDCycles = {1, 2}
    MaxNow = 9
    MaxSleeps = 1
INVARIANTS
    TokenBucket
    PaidInFull
PROPERTIES
    AggregatedRespected
CHECK_DEADLOCK FALSE
