SPECIFICATION DownSpec
CONSTANTS
    HalfRange = 4
    MaxFCntGap = 3
    ClassC = FALSE
    MaxAir = 2
INVARIANTS
    FreshAccepted
    AckAnswersAccepted
