CONSTANTS
    Vals <- MCVals
    InstTimes <- MCInstTimes
    Times <- MCTimes
    PSTimes <- MCPSTimes
    MaxLen <- MCMaxLen
    MaxCount <- MCMaxCount
    MaxCalls <- MCMaxCalls2
SPECIFICATION SpecSetsLinear
INVARIANTS
    ValueWellFormed
    ResultDenotesOperation
    CmpTotalOrder
CHECK_DEADLOCK FALSE
