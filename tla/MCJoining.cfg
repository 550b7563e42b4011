SPECIFICATION FairSpec
CONSTANTS
    JoinTypes = {"OTAA", "ABP"}
    ChosenClass = "CLASS_C"
    JoinFrames <- AnyJoinFrame
    DataFrames <- AnyDataFrame
    TxPlans = {"OK", "RESTRICTED"}
    QueueLen = 5
    LosesPower = {"OTAA", "ABP"}
    MaxJoins = 3
    MaxUplinks = 2
    MaxRestarts = 2
PROPERTIES
    JoinsAnswered
    AnswersTruthful
    CounterOncePerKey
CHECK_DEADLOCK FALSE
