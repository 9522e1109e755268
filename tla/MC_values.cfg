CONSTANTS
    Vals <- MCVals
    InstTimes <- MCInstTimes
    Times <- MCTimes
    PSTimes <- MCPSTimes
    MaxLen <- MCMaxLen
    MaxCount <- MCMaxCount
    MaxCalls <- MCMaxCalls
SPECIFICATION SpecValues
INVARIANTS
    ValueWellFormed
    ResultDenotesOperation
    EverAlwaysCorrect
    AggregatesCorrect
CHECK_DEADLOCK FALSE
