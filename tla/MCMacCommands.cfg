SPECIFICATION Spec
CONSTANTS
    Cids <- MCCids
    PayloadSize <- MCPayloadSize
    StickyCids <- MCStickyCids
    NoCid = NoCid
    Requests <- MCRequests
    NumOfMacCommands = 3
    MaxFOptsLength = 4
    MaxPayloads = {3, 7}
    AppSizes = {2}
    MaxAnswers = 2
INVARIANTS
    StoreConsistent
PROPERTIES
    FrameFits
    ForgottenOnlyWhenSent
    StickyUntilHeard
    ImplementsSequence
