SPECIFICATION Spec
CONSTANTS
    FragNb = 6
    FRAG_MAX_REDUNDANCY = 3
    ByteBits = 2
    MaxCoded = 7
    MaxSessions = 2
INVARIANTS
    FileComplete
    EndsWhenDetermined
CHECK_DEADLOCK FALSE
